---- MODULE Spec2Model ----
(***************************************************************************)
(* Model of the influencer-hub API server: the relational tables of        *)
(* server/src/db/schema.ts and the tRPC procedures of server/src/index.ts, *)
(* each procedure being one atomic action translated from its handler.     *)
(* Three handlers are also run statement by statement, to interleave       *)
(* concurrent calls, and two client views are modelled with their requests *)
(* and responses in flight.                                                *)
(*                                                                         *)
(* Encoding.  A table is the set of its rows (records keyed by a serial    *)
(* id).  Timestamps are integers read from the clock `now`.  SQL NULL and  *)
(* an omitted / null / undefined input are the same value: NULL for ids,   *)
(* numbers and dates, NULLTEXT for text.  A thrown Error is a message      *)
(* template with the ids it interpolates.                                  *)
(***************************************************************************)
EXTENDS Integers, FiniteSets, Sequences, TLC

VARIABLES usersTable, platformAccountsTable, trendsTable, contentTable,
          scheduledPostsTable, campaignsTable, campaignMetricsTable,
          workflowTasksTable, aiContentRequestsTable,
          serial, now, last,
          inflight, view, network

vars == <<usersTable, platformAccountsTable, trendsTable, contentTable,
          scheduledPostsTable, campaignsTable, campaignMetricsTable,
          workflowTasksTable, aiContentRequestsTable,
          serial, now, last, inflight, view, network>>

tables == <<usersTable, platformAccountsTable, trendsTable, contentTable,
            scheduledPostsTable, campaignsTable, campaignMetricsTable,
            workflowTasksTable, aiContentRequestsTable>>

\* What runs beside the database: the handler calls in the middle of their
\* statements, the state of the client's views, and the requests and
\* responses under way between the client and the server.
running == <<inflight, view, network>>

\* ---------------------------------------------------------------- bounds
\* Total number of rows the database may hold.
MaxRows == 5
\* Number of workflow tasks created.
MaxTasks == 2
\* Number of rows in a table that is queried in order.
MaxListed == 3
\* Number of content items listed page by page.
MaxContent == 2
\* Largest id a caller passes (0 is passed too: it never names a row).
MaxId == 2
\* Last instant of the clock.
MaxTime == 1
\* Trends stored when the values of their numeric columns are examined.
MaxTrends == 2
\* Handler calls run statement by statement.
MaxCalls == 2
\* Requests the client sends.
MaxRequests == 3

\* ---------------------------------------------------------------- values
NULL == -1
NULLTEXT == "NULL"

InputIds == 0..MaxId
OptionalIds == {NULL} \cup InputIds
Dates == 0..MaxTime
OptionalDates == {NULL} \cup Dates

WorkflowStatus == {"pending", "approved", "rejected", "completed"}
PriorityLevel == {"low", "medium", "high", "urgent"}

\* JavaScript truthiness of an optional number: undefined, null and 0 are falsy.
TruthyNumber(x) == x # NULL /\ x # 0
\* `x || null` for an optional number.
NumberOrNull(x) == IF TruthyNumber(x) THEN x ELSE NULL
\* JavaScript truthiness of an optional Date: every Date object is truthy.
TruthyDate(d) == d # NULL
\* `s || null` for an optional string: undefined, null and '' are falsy.
TextOrNull(s) == IF s = NULLTEXT \/ s = "" THEN NULLTEXT ELSE s

\* A JavaScript number is the integer count of its hundred-thousandths.
One == 100000
Abs(x) == IF x < 0 THEN 0 - x ELSE x
\* 10^n
RECURSIVE Pow10(_)
Pow10(n) == IF n = 0 THEN 1 ELSE 10 * Pow10(n - 1)
\* x.toString() written to a numeric(precision, scale) column and read back with
\* parseFloat: x rounded to `scale` decimals, halves away from zero.
\* Variant: the digits past the scale are cut off.
ToNumeric_Truncated(x, scale) ==
    LET step == Pow10(5 - scale)
        q == Abs(x) \div step
    IN  IF x < 0 THEN 0 - q * step ELSE q * step

ToNumeric(x, scale) ==
    LET step == Pow10(5 - scale)
        q == (Abs(x) + step \div 2) \div step
    IN  IF x < 0 THEN 0 - q * step ELSE q * step

\* "numeric field overflow": the rounded value needs more than
\* precision - scale digits before the decimal point.
NumericOverflow(x, precision, scale) ==
    Abs(ToNumeric(x, scale)) >= Pow10(precision - scale) * One

SocialPlatform == {"tiktok", "instagram", "x", "facebook", "onlyfans"}

\* ---------------------------------------------------------------- database
\* db.select().from(table).where(eq(table.id, id))
SelectById(table, id) == {r \in table : r.id = id}
\* result[0] of a select that returned one row
Row(table, id) == CHOOSE r \in table : r.id = id

RowCount == Cardinality(usersTable) + Cardinality(platformAccountsTable)
            + Cardinality(contentTable) + Cardinality(scheduledPostsTable)
            + Cardinality(campaignsTable) + Cardinality(workflowTasksTable)
            + Cardinality(aiContentRequestsTable) + Cardinality(trendsTable)
            + Cardinality(campaignMetricsTable)

\* serial('id'): the next value of a table's sequence
NextId(t) == serial[t] + 1
Bump(t) == [serial EXCEPT ![t] = @ + 1]

TableNames == {"users", "platform_accounts", "trends", "content", "scheduled_posts",
               "campaigns", "campaign_metrics", "workflow_tasks",
               "ai_content_requests"}

\* ---------------------------------------------------------------- results
\* No row: what a failed call returns, and `undefined` for an empty result.
NoRow == [id |-> 0]
\* rows[0] of a query result: undefined when the result is empty
First(rows) == IF rows = {} THEN NoRow ELSE CHOOSE r \in rows : TRUE

\* Outcome of a handler before it is applied: either an error or a row to write.
Throw(msg, ids) == [ok |-> FALSE, err |-> msg, errIds |-> ids, row |-> NoRow]
Write(row) == [ok |-> TRUE, err |-> "", errIds |-> <<>>, row |-> row]
Result(op, input, out) ==
    [op |-> op, input |-> input, ok |-> out.ok, err |-> out.err,
     errIds |-> out.errIds, row |-> out.row]

\* ---------------------------------------------------------------- queries
Min(a, b) == IF a < b THEN a ELSE b
Range(seq) == {seq[i] : i \in 1..Len(seq)}
\* .limit(n) and .offset(n) of a result
Limit(seq, n) == SubSeq(seq, 1, Min(n, Len(seq)))
Offset(seq, n) == SubSeq(seq, Min(n, Len(seq)) + 1, Len(seq))

\* The results an ORDER BY may produce for the rows S: every arrangement that
\* puts no row after a row it sorts before; rows that compare equal come in
\* any order.
\* `before` holds the pairs <<a, b>> of rows where a sorts before b.
OrderBy(S, before) ==
    {seq \in [1..Cardinality(S) -> S] :
        /\ \A i, j \in 1..Cardinality(S) : i # j => seq[i] # seq[j]
        /\ \A i, j \in 1..Cardinality(S) : i < j => <<seq[j], seq[i]>> \notin before}

\* What a query returns: its rows, or the error it throws.
Rows(rows) == [ok |-> TRUE, err |-> "", errIds |-> <<>>, row |-> NoRow, rows |-> rows]
Fail(msg, ids) == [ok |-> FALSE, err |-> msg, errIds |-> ids, row |-> NoRow, rows |-> <<>>]
Answer(op, input, out) ==
    [op |-> op, input |-> input, ok |-> out.ok, err |-> out.err,
     errIds |-> out.errIds, row |-> out.row, rows |-> out.rows]

\* A query changes nothing but what the caller sees.
Query(op, input, outs) ==
    /\ \E out \in outs : last' = Answer(op, input, out)
    /\ UNCHANGED <<tables, serial, now, running>>

\* A handler call: its procedure, its input, the statement it runs next
\* (0: not called yet) and the rows its SELECTs returned.
Calls == 1..MaxCalls
Idle == [op |-> "none", input |-> NoRow, pc |-> 0, seen |-> <<>>]

\* A request of the client: its procedure, its input, how far it got
\* (0: not sent, 1: on its way to the server, 2: answered, the response on
\* its way back, 3: the response delivered) and the server's answer.
Requests == 1..MaxRequests
Unsent == [op |-> "none", input |-> NoRow, phase |-> 0, out |-> Write(NoRow)]

\* The useState values of WorkflowManagement and SchedulingDashboard before
\* either mounts.  One tab is shown at a time, so filterStatus and isLoading
\* are those of the view that is mounted.
Unmounted ==
    [tab |-> "none", tasks |-> <<>>, scheduledPosts |-> <<>>,
     filterStatus |-> "all", filterPriority |-> "all", isLoading |-> FALSE]

Init ==
    /\ inflight = [c \in Calls |-> Idle]
    /\ view = Unmounted
    /\ network = [r \in Requests |-> Unsent]
    /\ usersTable = {}
    /\ platformAccountsTable = {}
    /\ contentTable = {}
    /\ scheduledPostsTable = {}
    /\ campaignsTable = {}
    /\ workflowTasksTable = {}
    /\ aiContentRequestsTable = {}
    /\ trendsTable = {}
    /\ campaignMetricsTable = {}
    /\ serial = [t \in TableNames |-> 0]
    /\ now = 0
    /\ last = [op |-> "none", input |-> NoRow, ok |-> TRUE, err |-> "",
               errIds |-> <<>>, row |-> NoRow]

\* ---------------------------------------------------------------- inputs
Emails == {"ann@example.com", "bob@example.com"}
Usernames == {"ann", "bob"}

CreateUserInput ==
    [email : Emails, username : Usernames, full_name : {"Full Name"},
     bio : {NULLTEXT, "Bio"}, profile_image_url : {NULLTEXT}]

CreatePlatformAccountInput ==
    [user_id : InputIds, platform : {"tiktok"}, platform_user_id : {"pid"},
     username : {"handle"}, access_token : {NULLTEXT}, refresh_token : {NULLTEXT},
     token_expires_at : {NULL}, followers_count : {NULL}, following_count : {NULL}]

CreateContentInput ==
    [user_id : InputIds, title : {"Title"}, description : {NULLTEXT},
     content_type : {"post"}, ai_generated : {FALSE}, script : {NULLTEXT},
     media_urls : {<<>>}, hashtags : {<<>>}]

\* Content of both kinds a query filters on: plain posts and AI-made reels.
FilterableContentInput ==
    [user_id : InputIds, title : {"Title"}, description : {NULLTEXT},
     content_type : {"post"}, ai_generated : {FALSE}, script : {NULLTEXT},
     media_urls : {<<>>}, hashtags : {<<>>}]
    \cup
    [user_id : InputIds, title : {"Title"}, description : {NULLTEXT},
     content_type : {"reel"}, ai_generated : {TRUE}, script : {NULLTEXT},
     media_urls : {<<>>}, hashtags : {<<>>}]

CreateScheduledPostInput ==
    [user_id : InputIds, content_id : InputIds, platform_account_id : InputIds,
     scheduled_at : {MaxTime}]

CreateCampaignInput ==
    [user_id : InputIds, name : {"Campaign"}, description : {NULLTEXT},
     start_date : Dates, end_date : OptionalDates, budget : {NULL},
     target_platforms : {<<"tiktok">>}, goals : {NULLTEXT}]

CreateWorkflowTaskInput ==
    [user_id : InputIds, campaign_id : OptionalIds, content_id : OptionalIds,
     title : {"Task"}, description : {NULLTEXT}, priority : {"medium", "high"},
     assigned_to : OptionalIds, due_date : {NULL}]

CreateAIContentRequestInput ==
    [user_id : InputIds, prompt : {"Write a caption"}, content_type : {"post"},
     platform : {"tiktok"}]

UpdateWorkflowTaskStatusInput == [taskId : InputIds, status : WorkflowStatus]

\* Scores of 50, 50.004 and 50.005: the last two differ in the third decimal.
Scores == {50 * One, 50 * One + 400, 50 * One + 500}

CreateTrendInput ==
    [platform : {"tiktok", "instagram"}, hashtag : {"#tag"}, keyword : {NULLTEXT},
     volume : {10}, engagement_rate : {One}, sentiment_score : {0},
     trending_score : Scores]

CreateCampaignMetricInput ==
    [campaign_id : InputIds, platform : {"tiktok", "instagram"},
     metric_name : {"clicks", "views"}, metric_value : {One + 25005},
     measured_at : OptionalDates]

\* Variant: only the email column is unique.
UniqueViolation_EmailOnly(row) ==
    \E u \in usersTable : u.email = row.email

\* ---------------------------------------------------------------- createUser
\* usersTable: email and username are declared .unique()
UniqueViolation(row) ==
    \E u \in usersTable : u.email = row.email \/ u.username = row.username

\* Variant: the id is not drawn from the sequence.
UserRow_SameId(input) ==
    [id |-> 1, email |-> input.email, username |-> input.username,
     full_name |-> input.full_name, bio |-> TextOrNull(input.bio),
     profile_image_url |-> TextOrNull(input.profile_image_url),
     created_at |-> now, updated_at |-> now]

\* The row createUser inserts: the input's fields, serial id, defaultNow() stamps.
UserRow(input) ==
    [id |-> NextId("users"), email |-> input.email, username |-> input.username,
     full_name |-> input.full_name, bio |-> TextOrNull(input.bio),
     profile_image_url |-> TextOrNull(input.profile_image_url),
     created_at |-> now, updated_at |-> now]

createUserOutcome(input) ==
    IF UniqueViolation(UserRow(input))
    THEN Throw("duplicate key value violates unique constraint", <<>>)
    ELSE Write(UserRow(input))

createUser(Inputs) ==
    \E input \in Inputs :
        LET out == createUserOutcome(input) IN
        /\ out.ok => RowCount < MaxRows
        /\ usersTable' = IF out.ok THEN usersTable \cup {out.row} ELSE usersTable
        /\ serial' = IF out.ok THEN Bump("users") ELSE serial
        /\ UNCHANGED running
        /\ last' = Result("createUser", input, out)
        /\ UNCHANGED <<trendsTable, campaignMetricsTable>>
        /\ UNCHANGED <<platformAccountsTable, contentTable, scheduledPostsTable,
                       campaignsTable, workflowTasksTable, aiContentRequestsTable, now>>

\* ---------------------------------------------------------------- createPlatformAccount
createPlatformAccountUserMissing(input) ==
    SelectById(usersTable, input.user_id) = {}

PlatformAccountRow(input) ==
    [id |-> NextId("platform_accounts"), user_id |-> input.user_id,
     platform |-> input.platform, platform_user_id |-> input.platform_user_id,
     username |-> input.username, access_token |-> TextOrNull(input.access_token),
     refresh_token |-> TextOrNull(input.refresh_token),
     token_expires_at |-> input.token_expires_at, is_active |-> TRUE,
     followers_count |-> IF TruthyNumber(input.followers_count) THEN input.followers_count ELSE 0,
     following_count |-> IF TruthyNumber(input.following_count) THEN input.following_count ELSE 0,
     created_at |-> now, updated_at |-> now]

createPlatformAccountOutcome(input) ==
    IF createPlatformAccountUserMissing(input)
    THEN Throw("User with id N does not exist", <<input.user_id>>)
    ELSE Write(PlatformAccountRow(input))

createPlatformAccount(Inputs) ==
    \E input \in Inputs :
        LET out == createPlatformAccountOutcome(input) IN
        /\ out.ok => RowCount < MaxRows
        /\ platformAccountsTable' =
               IF out.ok THEN platformAccountsTable \cup {out.row} ELSE platformAccountsTable
        /\ serial' = IF out.ok THEN Bump("platform_accounts") ELSE serial
        /\ UNCHANGED running
        /\ last' = Result("createPlatformAccount", input, out)
        /\ UNCHANGED <<trendsTable, campaignMetricsTable>>
        /\ UNCHANGED <<usersTable, contentTable, scheduledPostsTable,
                       campaignsTable, workflowTasksTable, aiContentRequestsTable, now>>

\* ---------------------------------------------------------------- createContent
createContentUserMissing(input) ==
    SelectById(usersTable, input.user_id) = {}

ContentRow(input) ==
    [id |-> NextId("content"), user_id |-> input.user_id, title |-> input.title,
     description |-> TextOrNull(input.description),
     content_type |-> input.content_type, ai_generated |-> input.ai_generated,
     script |-> TextOrNull(input.script), media_urls |-> input.media_urls,
     hashtags |-> input.hashtags, created_at |-> now, updated_at |-> now]

createContentOutcome(input) ==
    IF createContentUserMissing(input)
    THEN Throw("User with id N does not exist", <<input.user_id>>)
    ELSE Write(ContentRow(input))

createContent(Inputs) ==
    \E input \in Inputs :
        LET out == createContentOutcome(input) IN
        /\ out.ok => RowCount < MaxRows
        /\ contentTable' = IF out.ok THEN contentTable \cup {out.row} ELSE contentTable
        /\ serial' = IF out.ok THEN Bump("content") ELSE serial
        /\ UNCHANGED running
        /\ last' = Result("createContent", input, out)
        /\ UNCHANGED <<trendsTable, campaignMetricsTable>>
        /\ UNCHANGED <<usersTable, platformAccountsTable, scheduledPostsTable,
                       campaignsTable, workflowTasksTable, aiContentRequestsTable, now>>

\* Variant: the user lookup is skipped.
createAIContentRequestUserMissing_Skipped(input) ==
    FALSE

\* ---------------------------------------------------------------- createAIContentRequest
createAIContentRequestUserMissing(input) ==
    SelectById(usersTable, input.user_id) = {}

AIContentRequestRow(input) ==
    [id |-> NextId("ai_content_requests"), user_id |-> input.user_id,
     prompt |-> input.prompt, content_type |-> input.content_type,
     platform |-> input.platform, generated_content |-> NULLTEXT,
     status |-> "pending", error_message |-> NULLTEXT,
     created_at |-> now, updated_at |-> now]

createAIContentRequestOutcome(input) ==
    IF createAIContentRequestUserMissing(input)
    THEN Throw("User with id N not found", <<input.user_id>>)
    ELSE Write(AIContentRequestRow(input))

createAIContentRequest(Inputs) ==
    \E input \in Inputs :
        LET out == createAIContentRequestOutcome(input) IN
        /\ out.ok => RowCount < MaxRows
        /\ aiContentRequestsTable' =
               IF out.ok THEN aiContentRequestsTable \cup {out.row} ELSE aiContentRequestsTable
        /\ serial' = IF out.ok THEN Bump("ai_content_requests") ELSE serial
        /\ UNCHANGED running
        /\ last' = Result("createAIContentRequest", input, out)
        /\ UNCHANGED <<trendsTable, campaignMetricsTable>>
        /\ UNCHANGED <<usersTable, platformAccountsTable, contentTable, scheduledPostsTable,
                       campaignsTable, workflowTasksTable, now>>

\* ---------------------------------------------------------------- createScheduledPost
createScheduledPostUserMissing(input) ==
    SelectById(usersTable, input.user_id) = {}

createScheduledPostContentMissing(input) ==
    SelectById(contentTable, input.content_id) = {}

\* Variant: the content's owner is not compared with the post's user.
ContentNotOwned_Skipped(input) ==
    FALSE

\* contentExists[0].user_id !== input.user_id
ContentNotOwned(input) ==
    Row(contentTable, input.content_id).user_id # input.user_id

createScheduledPostAccountMissing(input) ==
    SelectById(platformAccountsTable, input.platform_account_id) = {}

\* Variant: the account's owner is not compared with the post's user.
AccountNotOwned_Skipped(input) ==
    FALSE

\* platformAccountExists[0].user_id !== input.user_id
AccountNotOwned(input) ==
    Row(platformAccountsTable, input.platform_account_id).user_id # input.user_id

\* Variant: the post is stored as already scheduled.
ScheduledPostRow_Scheduled(input) ==
    [id |-> NextId("scheduled_posts"), user_id |-> input.user_id,
     content_id |-> input.content_id,
     platform_account_id |-> input.platform_account_id,
     scheduled_at |-> input.scheduled_at, status |-> "scheduled",
     platform_post_id |-> NULLTEXT, error_message |-> NULLTEXT,
     published_at |-> NULL, created_at |-> now, updated_at |-> now]

\* The inserted row: the four input columns, the rest from the column defaults.
ScheduledPostRow(input) ==
    [id |-> NextId("scheduled_posts"), user_id |-> input.user_id,
     content_id |-> input.content_id,
     platform_account_id |-> input.platform_account_id,
     scheduled_at |-> input.scheduled_at, status |-> "draft",
     platform_post_id |-> NULLTEXT, error_message |-> NULLTEXT,
     published_at |-> NULL, created_at |-> now, updated_at |-> now]

\* Variant: the platform account is validated before the content item.
createScheduledPostOutcome_AccountFirst(input) ==
    IF createScheduledPostUserMissing(input)
    THEN Throw("User with id N does not exist", <<input.user_id>>)
    ELSE IF createScheduledPostAccountMissing(input)
    THEN Throw("Platform account with id N does not exist",
               <<input.platform_account_id>>)
    ELSE IF AccountNotOwned(input)
    THEN Throw("Platform account with id N does not belong to user M",
               <<input.platform_account_id, input.user_id>>)
    ELSE IF createScheduledPostContentMissing(input)
    THEN Throw("Content with id N does not exist", <<input.content_id>>)
    ELSE IF ContentNotOwned(input)
    THEN Throw("Content with id N does not belong to user M",
               <<input.content_id, input.user_id>>)
    ELSE Write(ScheduledPostRow(input))

createScheduledPostOutcome(input) ==
    IF createScheduledPostUserMissing(input)
    THEN Throw("User with id N does not exist", <<input.user_id>>)
    ELSE IF createScheduledPostContentMissing(input)
    THEN Throw("Content with id N does not exist", <<input.content_id>>)
    ELSE IF ContentNotOwned(input)
    THEN Throw("Content with id N does not belong to user M",
               <<input.content_id, input.user_id>>)
    ELSE IF createScheduledPostAccountMissing(input)
    THEN Throw("Platform account with id N does not exist",
               <<input.platform_account_id>>)
    ELSE IF AccountNotOwned(input)
    THEN Throw("Platform account with id N does not belong to user M",
               <<input.platform_account_id, input.user_id>>)
    ELSE Write(ScheduledPostRow(input))

createScheduledPost(Inputs) ==
    \E input \in Inputs :
        LET out == createScheduledPostOutcome(input) IN
        /\ out.ok => RowCount < MaxRows
        /\ scheduledPostsTable' =
               IF out.ok THEN scheduledPostsTable \cup {out.row} ELSE scheduledPostsTable
        /\ serial' = IF out.ok THEN Bump("scheduled_posts") ELSE serial
        /\ UNCHANGED running
        /\ last' = Result("createScheduledPost", input, out)
        /\ UNCHANGED <<trendsTable, campaignMetricsTable>>
        /\ UNCHANGED <<usersTable, platformAccountsTable, contentTable,
                       campaignsTable, workflowTasksTable, aiContentRequestsTable, now>>

\* ---------------------------------------------------------------- createCampaign
createCampaignUserMissing(input) ==
    SelectById(usersTable, input.user_id) = {}

\* Variant: equal dates are let through.
DateRangeInvalid_Strict(input) ==
    TruthyDate(input.end_date) /\ input.start_date > input.end_date

\* input.end_date && input.start_date >= input.end_date
DateRangeInvalid(input) ==
    TruthyDate(input.end_date) /\ input.start_date >= input.end_date

\* budget is kept as the text of a numeric(10, 2) column.
CampaignRow(input) ==
    [id |-> NextId("campaigns"), user_id |-> input.user_id, name |-> input.name,
     description |-> TextOrNull(input.description), status |-> "planning",
     start_date |-> input.start_date,
     end_date |-> IF TruthyDate(input.end_date) THEN input.end_date ELSE NULL,
     budget |-> IF input.budget # NULL THEN ToNumeric(input.budget, 2) ELSE NULL,
     target_platforms |-> input.target_platforms,
     goals |-> TextOrNull(input.goals), created_at |-> now, updated_at |-> now]

createCampaignOutcome(input) ==
    IF createCampaignUserMissing(input)
    THEN Throw("User with id N does not exist", <<input.user_id>>)
    ELSE IF DateRangeInvalid(input)
    THEN Throw("Start date must be before end date", <<>>)
    ELSE Write(CampaignRow(input))

createCampaign(Inputs) ==
    \E input \in Inputs :
        LET out == createCampaignOutcome(input) IN
        /\ out.ok => RowCount < MaxRows
        /\ campaignsTable' = IF out.ok THEN campaignsTable \cup {out.row} ELSE campaignsTable
        /\ serial' = IF out.ok THEN Bump("campaigns") ELSE serial
        /\ UNCHANGED running
        /\ last' = Result("createCampaign", input, out)
        /\ UNCHANGED <<trendsTable, campaignMetricsTable>>
        /\ UNCHANGED <<usersTable, platformAccountsTable, contentTable, scheduledPostsTable,
                       workflowTasksTable, aiContentRequestsTable, now>>

\* ---------------------------------------------------------------- createWorkflowTask
createWorkflowTaskUserMissing(input) ==
    SelectById(usersTable, input.user_id) = {}

\* if (input.assigned_to) { ... assignedUserExists.length === 0 }
AssignedUserMissing(input) ==
    TruthyNumber(input.assigned_to) /\ SelectById(usersTable, input.assigned_to) = {}

\* Variant: a campaign of another user counts as missing.
CampaignMissing_OrForeign(input) ==
    /\ TruthyNumber(input.campaign_id)
    /\ \A c \in SelectById(campaignsTable, input.campaign_id) :
           c.user_id # input.user_id

\* if (input.campaign_id) { ... campaignExists.length === 0 }
CampaignMissing(input) ==
    TruthyNumber(input.campaign_id) /\ SelectById(campaignsTable, input.campaign_id) = {}

\* if (input.content_id) { ... contentExists.length === 0 }
ContentMissing(input) ==
    TruthyNumber(input.content_id) /\ SelectById(contentTable, input.content_id) = {}

WorkflowTaskRow(input) ==
    [id |-> NextId("workflow_tasks"), user_id |-> input.user_id,
     campaign_id |-> NumberOrNull(input.campaign_id),
     content_id |-> NumberOrNull(input.content_id), title |-> input.title,
     description |-> TextOrNull(input.description), status |-> "pending",
     priority |-> input.priority, assigned_to |-> NumberOrNull(input.assigned_to),
     due_date |-> IF TruthyDate(input.due_date) THEN input.due_date ELSE NULL,
     completed_at |-> NULL, created_at |-> now, updated_at |-> now]

createWorkflowTaskOutcome(input) ==
    IF createWorkflowTaskUserMissing(input)
    THEN Throw("User with id N not found", <<input.user_id>>)
    ELSE IF AssignedUserMissing(input)
    THEN Throw("Assigned user with id N not found", <<input.assigned_to>>)
    ELSE IF CampaignMissing(input)
    THEN Throw("Campaign with id N not found", <<input.campaign_id>>)
    ELSE IF ContentMissing(input)
    THEN Throw("Content with id N not found", <<input.content_id>>)
    ELSE Write(WorkflowTaskRow(input))

createWorkflowTask(Inputs) ==
    \E input \in Inputs :
        LET out == createWorkflowTaskOutcome(input) IN
        /\ out.ok => RowCount < MaxRows
        /\ workflowTasksTable' =
               IF out.ok THEN workflowTasksTable \cup {out.row} ELSE workflowTasksTable
        /\ serial' = IF out.ok THEN Bump("workflow_tasks") ELSE serial
        /\ UNCHANGED running
        /\ last' = Result("createWorkflowTask", input, out)
        /\ UNCHANGED <<trendsTable, campaignMetricsTable>>
        /\ UNCHANGED <<usersTable, platformAccountsTable, contentTable, scheduledPostsTable,
                       campaignsTable, aiContentRequestsTable, now>>

\* Variant: the existence check is skipped.
TaskMissing_Skipped(input) ==
    FALSE

\* ---------------------------------------------------------------- updateWorkflowTaskStatus
\* existingTasks.length === 0
TaskMissing(input) ==
    SelectById(workflowTasksTable, input.taskId) = {}

\* Variant: completed_at is stamped on every status change.
CompletedAtFor_Always(status) ==
    now

\* Set completed_at when status is 'completed', clear it otherwise
CompletedAtFor(status) ==
    IF status = "completed" THEN now ELSE NULL

\* updateData: the three columns the UPDATE sets.
UpdateData(input) ==
    [status |-> input.status, updated_at |-> now,
     completed_at |-> CompletedAtFor(input.status)]

\* Variant: the status column is left out of the SET list.
SetColumns_KeepStatus(row, data) ==
    [row EXCEPT !.updated_at = data.updated_at, !.completed_at = data.completed_at]

\* .set(updateData) applied to one row
SetColumns(row, data) ==
    [row EXCEPT !.status = data.status, !.updated_at = data.updated_at,
                !.completed_at = data.completed_at]

\* Variant: the table is replaced by the rows the UPDATE returned.
UpdateWhereId_OnlyUpdated(table, id, data) ==
    {SetColumns(r, data) : r \in {q \in table : q.id = id}}

\* Variant: the UPDATE has no WHERE clause.
UpdateWhereId_AllRows(table, id, data) ==
    {SetColumns(r, data) : r \in table}

\* db.update(workflowTasksTable).set(updateData).where(eq(id, taskId))
UpdateWhereId(table, id, data) ==
    {IF r.id = id THEN SetColumns(r, data) ELSE r : r \in table}

\* .returning(): the rows the UPDATE changed, as they are afterwards
Returning(table, id, data) ==
    {SetColumns(r, data) : r \in SelectById(table, id)}

updateWorkflowTaskStatusOutcome(input) ==
    IF TaskMissing(input)
    THEN Throw("Workflow task with id N not found", <<input.taskId>>)
    ELSE Write(First(Returning(workflowTasksTable, input.taskId, UpdateData(input))))

updateWorkflowTaskStatus(Inputs) ==
    \E input \in Inputs :
        LET out == updateWorkflowTaskStatusOutcome(input) IN
        /\ workflowTasksTable' =
               IF out.ok
               THEN UpdateWhereId(workflowTasksTable, input.taskId, UpdateData(input))
               ELSE workflowTasksTable
        /\ UNCHANGED running
        /\ last' = Result("updateWorkflowTaskStatus", input, out)
        /\ UNCHANGED <<trendsTable, campaignMetricsTable>>
        /\ UNCHANGED <<usersTable, platformAccountsTable, contentTable, scheduledPostsTable,
                       campaignsTable, aiContentRequestsTable, serial, now>>

\* ---------------------------------------------------------------- createTrend
TrendRow(input) ==
    [id |-> NextId("trends"), platform |-> input.platform, hashtag |-> input.hashtag,
     keyword |-> TextOrNull(input.keyword), volume |-> input.volume,
     engagement_rate |-> ToNumeric(input.engagement_rate, 2),
     sentiment_score |-> ToNumeric(input.sentiment_score, 2),
     trending_score |-> ToNumeric(input.trending_score, 2),
     detected_at |-> now, created_at |-> now]

\* numeric(5, 2), numeric(3, 2), numeric(5, 2)
TrendOverflow(input) ==
    \/ NumericOverflow(input.engagement_rate, 5, 2)
    \/ NumericOverflow(input.sentiment_score, 3, 2)
    \/ NumericOverflow(input.trending_score, 5, 2)

createTrendOutcome(input) ==
    IF TrendOverflow(input)
    THEN Throw("numeric field overflow", <<>>)
    ELSE Write(TrendRow(input))

createTrend(Inputs) ==
    \E input \in Inputs :
        LET out == createTrendOutcome(input) IN
        /\ out.ok => RowCount < MaxRows
        /\ trendsTable' = IF out.ok THEN trendsTable \cup {out.row} ELSE trendsTable
        /\ serial' = IF out.ok THEN Bump("trends") ELSE serial
        /\ UNCHANGED running
        /\ last' = Result("createTrend", input, out)
        /\ UNCHANGED <<usersTable, platformAccountsTable, contentTable, scheduledPostsTable,
                       campaignsTable, campaignMetricsTable, workflowTasksTable,
                       aiContentRequestsTable, now>>

\* Variant: campaign_id carries no foreign key.
ForeignKeyViolation_None(row) ==
    FALSE

\* ---------------------------------------------------------------- createCampaignMetric
\* campaign_id: .references(() => campaignsTable.id)
ForeignKeyViolation(row) ==
    SelectById(campaignsTable, row.campaign_id) = {}

CampaignMetricRow(input) ==
    [id |-> NextId("campaign_metrics"), campaign_id |-> input.campaign_id,
     platform |-> input.platform, metric_name |-> input.metric_name,
     metric_value |-> ToNumeric(input.metric_value, 4),
     measured_at |-> IF TruthyDate(input.measured_at) THEN input.measured_at ELSE now,
     created_at |-> now]

createCampaignMetricOutcome(input) ==
    IF ForeignKeyViolation(CampaignMetricRow(input))
    THEN Throw("violates foreign key constraint", <<>>)
    ELSE Write(CampaignMetricRow(input))

createCampaignMetric(Inputs) ==
    \E input \in Inputs :
        LET out == createCampaignMetricOutcome(input) IN
        /\ out.ok => RowCount < MaxRows
        /\ campaignMetricsTable' =
               IF out.ok THEN campaignMetricsTable \cup {out.row} ELSE campaignMetricsTable
        /\ serial' = IF out.ok THEN Bump("campaign_metrics") ELSE serial
        /\ UNCHANGED running
        /\ last' = Result("createCampaignMetric", input, out)
        /\ UNCHANGED <<usersTable, platformAccountsTable, trendsTable, contentTable,
                       scheduledPostsTable, campaignsTable, workflowTasksTable,
                       aiContentRequestsTable, now>>

\* ---------------------------------------------------------------- getTrends
\* limit: number = 50
DefaultTrendsLimit == 50

GetTrendsInput ==
    [platform : {NULLTEXT, "tiktok", "instagram"}, limit : {NULL, 1, 2}]

\* Variant: the second sort key is left out.
TrendSortsBefore_ScoreOnly(a, b) ==
    a.trending_score > b.trending_score

\* .orderBy(desc(trending_score), desc(detected_at))
TrendSortsBefore(a, b) ==
    \/ a.trending_score > b.trending_score
    \/ (a.trending_score = b.trending_score /\ a.detected_at > b.detected_at)

\* platform ? ...where(eq(trendsTable.platform, platform)) : (no where)
TrendsOf(platform) ==
    IF platform # NULLTEXT /\ platform # ""
    THEN {t \in trendsTable : t.platform = platform}
    ELSE trendsTable

getTrendsOutcomes(input) ==
    LET limit == IF input.limit = NULL THEN DefaultTrendsLimit ELSE input.limit
        rows == TrendsOf(input.platform)
        before == {p \in rows \X rows : TrendSortsBefore(p[1], p[2])}
    IN  {Rows(Limit(seq, limit)) : seq \in OrderBy(rows, before)}

getTrends(Inputs) ==
    \E input \in Inputs : Query("getTrends", input, getTrendsOutcomes(input))

\* ---------------------------------------------------------------- getContentByUser
\* const limit = options.limit || 20
DefaultContentLimit == 20

\* userId and GetContentOptions; an option left out is NULL / NULLTEXT, and the
\* ai_generated option is the text of its boolean.
GetContentByUserInput ==
    [userId : 1..MaxId, content_type : {NULLTEXT, "post"},
     ai_generated : {NULLTEXT, "true"}, limit : {NULL, 0, 1}, offset : {NULL, 1}]

\* getContentByUser as the router calls it: no options.
RouterContentInput ==
    [userId : InputIds, content_type : {NULLTEXT}, ai_generated : {NULLTEXT},
     limit : {NULL}, offset : {NULL}]

BoolText(b) == IF b THEN "true" ELSE "false"

getContentByUserUserMissing(input) ==
    SelectById(usersTable, input.userId) = {}

\* conditions: user_id, and content_type / ai_generated when !== undefined
ContentConditions(input) ==
    {c \in contentTable :
        /\ c.user_id = input.userId
        /\ input.content_type # NULLTEXT => c.content_type = input.content_type
        /\ input.ai_generated # NULLTEXT => BoolText(c.ai_generated) = input.ai_generated}

\* .orderBy(desc(contentTable.created_at))
ContentSortsBefore(a, b) == a.created_at > b.created_at

getContentByUserOutcomes(input) ==
    IF getContentByUserUserMissing(input)
    THEN {Fail("User with id N not found", <<input.userId>>)}
    ELSE LET limit == IF TruthyNumber(input.limit) THEN input.limit
                      ELSE DefaultContentLimit
             offset == IF TruthyNumber(input.offset) THEN input.offset ELSE 0
             rows == ContentConditions(input)
             before == {p \in rows \X rows : ContentSortsBefore(p[1], p[2])}
         IN  {Rows(Limit(Offset(seq, offset), limit)) : seq \in OrderBy(rows, before)}

getContentByUser(Inputs) ==
    \E input \in Inputs :
        Query("getContentByUser", input, getContentByUserOutcomes(input))

\* Variant: the user lookup is skipped.
getPlatformAccountsByUserUserMissing_Skipped(input) ==
    FALSE

\* ---------------------------------------------------------------- getPlatformAccountsByUser
GetPlatformAccountsByUserInput == [userId : InputIds]

getPlatformAccountsByUserUserMissing(input) ==
    SelectById(usersTable, input.userId) = {}

\* No ORDER BY: no row sorts before another.
Unordered == {}

getPlatformAccountsByUserOutcomes(input) ==
    IF getPlatformAccountsByUserUserMissing(input)
    THEN {Fail("User with ID N not found", <<input.userId>>)}
    ELSE {Rows(seq) :
             seq \in OrderBy({a \in platformAccountsTable : a.user_id = input.userId},
                             Unordered)}

getPlatformAccountsByUser(Inputs) ==
    \E input \in Inputs :
        Query("getPlatformAccountsByUser", input, getPlatformAccountsByUserOutcomes(input))

\* ---------------------------------------------------------------- getWorkflowTasksByUser
\* userId, status?, priority?, assignedToMe? (the text of its boolean)
GetWorkflowTasksByUserInput ==
    [userId : 1..MaxId, status : {NULLTEXT, "completed"},
     priority : {NULLTEXT, "high"}, assignedToMe : {NULLTEXT, "true", "false"}]

\* Variant: without the flag only the creator's tasks are selected.
TaskUserCondition_CreatorOnly(t, input) ==
    IF input.assignedToMe = "true" THEN t.assigned_to = input.userId
    ELSE t.user_id = input.userId

\* assignedToMe === true / === false / otherwise
TaskUserCondition(t, input) ==
    IF input.assignedToMe = "true" THEN t.assigned_to = input.userId
    ELSE IF input.assignedToMe = "false" THEN t.user_id = input.userId
    ELSE t.user_id = input.userId \/ t.assigned_to = input.userId

\* if (status) ... if (priority) ...
TaskConditions(input) ==
    {t \in workflowTasksTable :
        /\ TaskUserCondition(t, input)
        /\ (input.status # NULLTEXT /\ input.status # "") => t.status = input.status
        /\ (input.priority # NULLTEXT /\ input.priority # "")
               => t.priority = input.priority}

getWorkflowTasksByUserOutcomes(input) ==
    {Rows(seq) : seq \in OrderBy(TaskConditions(input), Unordered)}

getWorkflowTasksByUser(Inputs) ==
    \E input \in Inputs :
        Query("getWorkflowTasksByUser", input, getWorkflowTasksByUserOutcomes(input))

\* ---------------------------------------------------------------- getScheduledPostsByUser
PostStatus == {"draft", "scheduled", "published", "failed"}

GetScheduledPostsByUserInput ==
    [userId : InputIds, status : {NULLTEXT, "draft", "scheduled"}]

\* Variant: the content join compares the post's own id.
PostJoinsContent_ById(p, c) == p.id = c.id

\* .innerJoin(contentTable, eq(scheduledPostsTable.content_id, contentTable.id))
PostJoinsContent(p, c) == p.content_id = c.id

\* .innerJoin(platformAccountsTable, eq(platform_account_id, platformAccountsTable.id))
PostJoinsAccount(p, a) == p.platform_account_id = a.id

\* The joined rows that pass the WHERE clause: user_id, and status when
\* !== undefined.
JoinedPosts(input) ==
    {j \in scheduledPostsTable \X contentTable \X platformAccountsTable :
        /\ PostJoinsContent(j[1], j[2])
        /\ PostJoinsAccount(j[1], j[3])
        /\ j[1].user_id = input.userId
        /\ input.status # NULLTEXT => j[1].status = input.status}

\* .orderBy(desc(scheduledPostsTable.scheduled_at))
PostSortsBefore(j, k) == j[1].scheduled_at > k[1].scheduled_at

\* db.select({ ...the scheduled post columns })
SelectPost(seq) == [i \in 1..Len(seq) |-> seq[i][1]]

getScheduledPostsByUserOutcomes(input) ==
    LET rows == JoinedPosts(input)
        before == {p \in rows \X rows : PostSortsBefore(p[1], p[2])}
    IN  {Rows(SelectPost(seq)) : seq \in OrderBy(rows, before)}

getScheduledPostsByUser(Inputs) ==
    \E input \in Inputs :
        Query("getScheduledPostsByUser", input, getScheduledPostsByUserOutcomes(input))

\* ---------------------------------------------------------------- getCampaignMetrics
GetCampaignMetricsInput ==
    [campaignId : InputIds, platform : {NULLTEXT, "tiktok"},
     metricName : {NULLTEXT, "clicks"}]

\* The metrics of the campaign, of the platform and of the name when given.
MetricConditions(input) ==
    {m \in campaignMetricsTable :
        /\ m.campaign_id = input.campaignId
        /\ input.platform # NULLTEXT => m.platform = input.platform
        /\ input.metricName # NULLTEXT => m.metric_name = input.metricName}

\* Variant: oldest measurement first.
MetricSortsBefore_Oldest(a, b) == a.measured_at < b.measured_at

\* Most recent measured_at first.
MetricSortsBefore(a, b) == a.measured_at > b.measured_at

getCampaignMetricsOutcomes(input) ==
    LET rows == MetricConditions(input)
        before == {p \in rows \X rows : MetricSortsBefore(p[1], p[2])}
    IN  {Rows(seq) : seq \in OrderBy(rows, before)}

getCampaignMetrics(Inputs) ==
    \E input \in Inputs :
        Query("getCampaignMetrics", input, getCampaignMetricsOutcomes(input))

\* Variant: the WHERE clause is left out.
RequestsOf_Everyone(input) ==
    aiContentRequestsTable

\* ---------------------------------------------------------------- getAIContentRequestsByUser
GetAIContentRequestsByUserInput == [userId : InputIds]

\* .where(eq(aiContentRequestsTable.user_id, userId))
RequestsOf(input) ==
    {r \in aiContentRequestsTable : r.user_id = input.userId}

\* .orderBy(desc(aiContentRequestsTable.created_at))
RequestSortsBefore(a, b) == a.created_at > b.created_at

getAIContentRequestsByUserOutcomes(input) ==
    LET rows == RequestsOf(input)
        before == {p \in rows \X rows : RequestSortsBefore(p[1], p[2])}
    IN  {Rows(seq) : seq \in OrderBy(rows, before)}

getAIContentRequestsByUser(Inputs) ==
    \E input \in Inputs :
        Query("getAIContentRequestsByUser", input,
              getAIContentRequestsByUserOutcomes(input))

\* Variant: the status filter is ignored.
CampaignConditions_AnyStatus(input) ==
    {c \in campaignsTable : c.user_id = input.userId}

\* ---------------------------------------------------------------- getCampaignsByUser
\* userId, status?
GetCampaignsByUserInput ==
    [userId : InputIds, status : {NULLTEXT, "planning", "active"}]

\* eq(user_id, userId), and eq(status, status) if (status)
CampaignConditions(input) ==
    {c \in campaignsTable :
        /\ c.user_id = input.userId
        /\ (input.status # NULLTEXT /\ input.status # "") => c.status = input.status}

\* Variant: the column is tested as a number, so that 0 is falsy.
TruthyNumeric_AsNumber(x) ==
    x # NULL /\ x # 0

\* campaign.budget ? ... : the column is read as text, and the text of a
\* numeric(10, 2) value is never empty ('0.00' is truthy); only null is falsy.
TruthyNumeric(x) ==
    x # NULL

\* budget: campaign.budget ? parseFloat(campaign.budget) : null
CampaignOut(c) ==
    [c EXCEPT !.budget = IF TruthyNumeric(c.budget) THEN c.budget ELSE NULL]

getCampaignsByUserOutcomes(input) ==
    {Rows([i \in 1..Len(seq) |-> CampaignOut(seq[i])]) :
        seq \in OrderBy(CampaignConditions(input), Unordered)}

getCampaignsByUser(Inputs) ==
    \E input \in Inputs :
        Query("getCampaignsByUser", input, getCampaignsByUserOutcomes(input))

\* ---------------------------------------------------------------- calls, statement by statement
\* No transaction spans a handler: each await of a handler is one statement
\* sent to the database, and statements of other calls run between two of
\* them.

\* The statements a handler runs for an input, in order: an `if (input.x)`
\* that fails sends no statement.
Statements(op, input) ==
    IF op = "createScheduledPost" THEN <<"user", "content", "account", "insert">>
    ELSE IF op = "updateWorkflowTaskStatus" THEN <<"task", "update">>
    ELSE <<"user">>
         \o (IF TruthyNumber(input.assigned_to) THEN <<"assignee">> ELSE <<>>)
         \o (IF TruthyNumber(input.campaign_id) THEN <<"campaign">> ELSE <<>>)
         \o (IF TruthyNumber(input.content_id) THEN <<"content">> ELSE <<>>)
         \o <<"insert">>

\* The call has returned or thrown.
Returned(call) == call.pc > Len(Statements(call.op, call.input))

\* The rows a SELECT of a handler returns from the tables as they are now.
Selected(op, name, input) ==
    IF name = "user" THEN SelectById(usersTable, input.user_id)
    ELSE IF name = "assignee" THEN SelectById(usersTable, input.assigned_to)
    ELSE IF name = "campaign" THEN SelectById(campaignsTable, input.campaign_id)
    ELSE IF name = "content" THEN SelectById(contentTable, input.content_id)
    ELSE IF name = "account"
    THEN SelectById(platformAccountsTable, input.platform_account_id)
    ELSE SelectById(workflowTasksTable, input.taskId)

\* The test that follows a SELECT: the error it throws, or nothing.
Checked(op, name, input) ==
    IF op = "createScheduledPost"
    THEN IF name = "user"
         THEN IF createScheduledPostUserMissing(input)
              THEN Throw("User with id N does not exist", <<input.user_id>>)
              ELSE Write(NoRow)
         ELSE IF name = "content"
         THEN IF createScheduledPostContentMissing(input)
              THEN Throw("Content with id N does not exist", <<input.content_id>>)
              ELSE IF ContentNotOwned(input)
              THEN Throw("Content with id N does not belong to user M",
                         <<input.content_id, input.user_id>>)
              ELSE Write(NoRow)
         ELSE IF createScheduledPostAccountMissing(input)
              THEN Throw("Platform account with id N does not exist",
                         <<input.platform_account_id>>)
              ELSE IF AccountNotOwned(input)
              THEN Throw("Platform account with id N does not belong to user M",
                         <<input.platform_account_id, input.user_id>>)
              ELSE Write(NoRow)
    ELSE IF op = "updateWorkflowTaskStatus"
    THEN IF TaskMissing(input)
         THEN Throw("Workflow task with id N not found", <<input.taskId>>)
         ELSE Write(NoRow)
    ELSE IF name = "user"
         THEN IF createWorkflowTaskUserMissing(input)
              THEN Throw("User with id N not found", <<input.user_id>>)
              ELSE Write(NoRow)
         ELSE IF name = "assignee"
         THEN IF AssignedUserMissing(input)
              THEN Throw("Assigned user with id N not found", <<input.assigned_to>>)
              ELSE Write(NoRow)
         ELSE IF name = "campaign"
         THEN IF CampaignMissing(input)
              THEN Throw("Campaign with id N not found", <<input.campaign_id>>)
              ELSE Write(NoRow)
         ELSE IF ContentMissing(input)
              THEN Throw("Content with id N not found", <<input.content_id>>)
              ELSE Write(NoRow)

\* The last statement of a handler, and what the handler returns after it.
Written(op, input) ==
    IF op = "createScheduledPost" THEN Write(ScheduledPostRow(input))
    ELSE IF op = "updateWorkflowTaskStatus"
    THEN Write(First(Returning(workflowTasksTable, input.taskId, UpdateData(input))))
    ELSE Write(WorkflowTaskRow(input))

\* Call c, being at `call`, runs its next statement.
Run(c, call) ==
    LET steps == Statements(call.op, call.input)
        name == steps[call.pc]
        done == Len(steps) + 1
    IN  IF name \in {"insert", "update"}
        THEN LET out == Written(call.op, call.input) IN
             /\ name = "insert" => RowCount < MaxRows
             /\ scheduledPostsTable' =
                    IF call.op = "createScheduledPost"
                    THEN scheduledPostsTable \cup {out.row} ELSE scheduledPostsTable
             /\ workflowTasksTable' =
                    IF call.op = "createWorkflowTask"
                    THEN workflowTasksTable \cup {out.row}
                    ELSE IF call.op = "updateWorkflowTaskStatus"
                    THEN UpdateWhereId(workflowTasksTable, call.input.taskId,
                                       UpdateData(call.input))
                    ELSE workflowTasksTable
             /\ serial' =
                    IF call.op = "createScheduledPost" THEN Bump("scheduled_posts")
                    ELSE IF call.op = "createWorkflowTask" THEN Bump("workflow_tasks")
                    ELSE serial
             /\ last' = Result(call.op, call.input, out)
             /\ inflight' = [inflight EXCEPT ![c] = [call EXCEPT !.pc = done]]
             /\ UNCHANGED <<usersTable, platformAccountsTable, trendsTable, contentTable,
                            campaignsTable, campaignMetricsTable,
                            aiContentRequestsTable, now, view, network>>
        ELSE LET out == Checked(call.op, name, call.input)
                 rows == Selected(call.op, name, call.input)
             IN  /\ inflight' =
                        [inflight EXCEPT
                            ![c] = [call EXCEPT !.pc = IF out.ok THEN call.pc + 1 ELSE done,
                                                !.seen = Append(call.seen, rows)]]
                 /\ last' = IF out.ok THEN last
                            ELSE Result(call.op, call.input, out)
                 /\ UNCHANGED <<tables, serial, now, view, network>>

\* A handler is called: its first statement runs.
StartCall(c, op, Inputs) ==
    /\ inflight[c].pc = 0
    /\ c > 1 => inflight[c - 1].pc > 0
    /\ \E input \in Inputs :
           Run(c, [op |-> op, input |-> input, pc |-> 1, seen |-> <<>>])

\* A call that has not returned runs its next statement.
ResumeCall(c) ==
    /\ inflight[c].pc > 0
    /\ ~Returned(inflight[c])
    /\ Run(c, inflight[c])

\* ---------------------------------------------------------------- client views
\* The user the views are opened for: currentUser.id.
CurrentUser == 1

\* A request can be sent; the one sent next.
CanSend == \E r \in Requests : network[r].phase = 0
FreeRequest ==
    CHOOSE r \in Requests :
        network[r].phase = 0 /\ \A q \in 1..(r - 1) : network[q].phase > 0

\* trpc.<op>.query / .mutate: the request leaves the client.
Send(op, input) ==
    [network EXCEPT ![FreeRequest] =
        [op |-> op, input |-> input, phase |-> 1, out |-> Write(NoRow)]]

\* filter === 'all' ? undefined : filter
FilterArgument(filter) == IF filter = "all" THEN NULLTEXT ELSE filter

\* loadData of the view shown in tab, its filters being as given: the list
\* query it awaits.
LoadRequest(tab, filterStatus, filterPriority) ==
    IF tab = "workflow"
    THEN Send("getWorkflowTasksByUser",
              [userId |-> CurrentUser, status |-> FilterArgument(filterStatus),
               priority |-> FilterArgument(filterPriority), assignedToMe |-> NULLTEXT])
    ELSE Send("getScheduledPostsByUser",
              [userId |-> CurrentUser, status |-> FilterArgument(filterStatus)])

\* useEffect(() => { loadData(); }, [loadData]) when the view is first shown.
Mount(Tabs) ==
    /\ view.tab = "none"
    /\ \E u \in usersTable : u.id = CurrentUser
    /\ CanSend
    /\ \E tab \in Tabs :
           /\ view' = [view EXCEPT !.tab = tab, !.isLoading = TRUE]
           /\ network' = LoadRequest(tab, view.filterStatus, view.filterPriority)
    /\ UNCHANGED <<tables, serial, now, last, inflight>>

\* The items of the status filter's Select in each view.
FilterValues(tab) ==
    {"all"} \cup (IF tab = "workflow" THEN WorkflowStatus ELSE PostStatus)

\* The status filter is changed: loadData is rebuilt and the effect runs it.
setFilterStatus(Values) ==
    /\ view.tab # "none"
    /\ CanSend
    /\ \E value \in Values \cap FilterValues(view.tab) :
           /\ value # view.filterStatus
           /\ view' = [view EXCEPT !.filterStatus = value, !.isLoading = TRUE]
           /\ network' = LoadRequest(view.tab, value, view.filterPriority)
    /\ UNCHANGED <<tables, serial, now, last, inflight>>

\* The priority filter of WorkflowManagement is changed.
setFilterPriority(Values) ==
    /\ view.tab = "workflow"
    /\ CanSend
    /\ \E value \in Values :
           /\ value # view.filterPriority
           /\ view' = [view EXCEPT !.filterPriority = value, !.isLoading = TRUE]
           /\ network' = LoadRequest(view.tab, view.filterStatus, value)
    /\ UNCHANGED <<tables, serial, now, last, inflight>>

\* The status Select of a listed task: shown while the list is (not
\* isLoading) and the task is not completed; it calls handleStatusChange,
\* which awaits the mutation.
handleStatusChange(Statuses) ==
    /\ view.tab = "workflow"
    /\ ~view.isLoading
    /\ CanSend
    /\ \E i \in 1..Len(view.tasks), newStatus \in Statuses :
           /\ view.tasks[i].status # "completed"
           /\ newStatus # view.tasks[i].status
           /\ network' = Send("updateWorkflowTaskStatus",
                              [taskId |-> view.tasks[i].id, status |-> newStatus])
    /\ UNCHANGED <<tables, serial, now, last, inflight, view>>

\* The server runs the procedure of a request and answers.
Serve(r) ==
    LET request == network[r] IN
    /\ request.phase = 1
    /\ IF request.op = "updateWorkflowTaskStatus"
       THEN LET out == updateWorkflowTaskStatusOutcome(request.input) IN
            /\ workflowTasksTable' =
                   IF out.ok
                   THEN UpdateWhereId(workflowTasksTable, request.input.taskId,
                                      UpdateData(request.input))
                   ELSE workflowTasksTable
            /\ last' = Result(request.op, request.input, out)
            /\ network' = [network EXCEPT ![r] = [request EXCEPT !.phase = 2, !.out = out]]
       ELSE /\ \E out \in IF request.op = "getWorkflowTasksByUser"
                          THEN getWorkflowTasksByUserOutcomes(request.input)
                          ELSE getScheduledPostsByUserOutcomes(request.input) :
                   /\ last' = Answer(request.op, request.input, out)
                   /\ network' =
                          [network EXCEPT ![r] = [request EXCEPT !.phase = 2, !.out = out]]
            /\ UNCHANGED workflowTasksTable
    /\ UNCHANGED <<usersTable, platformAccountsTable, trendsTable, contentTable,
                   scheduledPostsTable, campaignsTable, campaignMetricsTable,
                   aiContentRequestsTable, serial, now, inflight, view>>

\* setTasks(prev => prev.map(task => task.id === taskId ? {...} : task))
StatusChanged(tasks, input) ==
    [i \in 1..Len(tasks) |->
        IF tasks[i].id = input.taskId
        THEN [tasks[i] EXCEPT !.status = input.status,
                              !.completed_at = IF input.status = "completed"
                                               THEN now ELSE NULL]
        ELSE tasks[i]]

\* A response reaches the client and the code after the await runs: setTasks
\* or setScheduledPosts with the data and, for loadData, setIsLoading(false)
\* in its finally; a rejected call only logs.
Deliver(r) ==
    LET response == network[r] IN
    /\ response.phase = 2
    /\ network' = [network EXCEPT ![r] = [response EXCEPT !.phase = 3]]
    /\ view' =
           IF response.op = "updateWorkflowTaskStatus"
           THEN IF response.out.ok
                THEN [view EXCEPT !.tasks = StatusChanged(view.tasks, response.input)]
                ELSE view
           ELSE IF response.op = "getWorkflowTasksByUser"
           THEN IF response.out.ok
                THEN [view EXCEPT !.tasks = response.out.rows, !.isLoading = FALSE]
                ELSE [view EXCEPT !.isLoading = FALSE]
           ELSE IF response.out.ok
                THEN [view EXCEPT !.scheduledPosts = response.out.rows,
                                  !.isLoading = FALSE]
                ELSE [view EXCEPT !.isLoading = FALSE]
    /\ UNCHANGED <<tables, serial, now, last, inflight>>

\* The wall clock read by new Date() and defaultNow().
Tick ==
    /\ now < MaxTime
    /\ now' = now + 1
    /\ UNCHANGED <<tables, serial, last, running>>

\* ---------------------------------------------------------------- specifications
\* Callers that register each user under an email and a username of their own.
DistinctUserInput ==
    {input \in CreateUserInput :
        /\ (input.email = "ann@example.com") <=> (input.username = "ann")
        /\ input.bio = NULLTEXT}

\* A single registrant.
SoloUserInput == {input \in DistinctUserInput : input.username = "ann"}

\* Tasks that reference no campaign and no content item.
PlainTaskInput ==
    {input \in CreateWorkflowTaskInput :
        /\ input.campaign_id = NULL /\ input.content_id = NULL
        /\ input.assigned_to \in {NULL, 1} /\ input.priority = "medium"}

\* Tasks of either priority, assigned or not, that reference nothing else.
AssignableTaskInput ==
    {input \in CreateWorkflowTaskInput :
        /\ input.campaign_id = NULL /\ input.content_id = NULL
        /\ input.assigned_to # 0 /\ input.user_id # 0}

\* Tasks whose campaign and content references are absent, 0, or the first id.
RefTaskInput ==
    {input \in CreateWorkflowTaskInput :
        /\ input.campaign_id \in {NULL, 0, 1} /\ input.content_id \in {NULL, 0, 1}
        /\ input.priority = "medium"}

\* Open-ended campaigns.
OpenCampaignInput ==
    {input \in CreateCampaignInput : input.end_date = NULL /\ input.start_date = 0}

\* The whole router.
Next ==
    \/ Tick
    \/ createUser(CreateUserInput)
    \/ createPlatformAccount(CreatePlatformAccountInput)
    \/ createContent(CreateContentInput)
    \/ createScheduledPost(CreateScheduledPostInput)
    \/ createCampaign(CreateCampaignInput)
    \/ createWorkflowTask(CreateWorkflowTaskInput)
    \/ updateWorkflowTaskStatus(UpdateWorkflowTaskStatusInput)
    \/ createAIContentRequest(CreateAIContentRequestInput)
    \/ createTrend(CreateTrendInput)
    \/ createCampaignMetric(CreateCampaignMetricInput)
    \/ getTrends(GetTrendsInput)
    \/ getContentByUser(RouterContentInput)
    \/ getPlatformAccountsByUser(GetPlatformAccountsByUserInput)
    \/ getWorkflowTasksByUser(GetWorkflowTasksByUserInput)
    \/ getScheduledPostsByUser(GetScheduledPostsByUserInput)
    \/ getCampaignMetrics(GetCampaignMetricsInput)

Spec == Init /\ [][Next]_vars

\* Registration alone.
NextUsers ==
    \/ Tick
    \/ createUser(CreateUserInput)

SpecUsers == Init /\ [][NextUsers]_vars

\* The tables whose rows carry an owner checked against users only.
NextOwners ==
    \/ Tick
    \/ createUser(DistinctUserInput)
    \/ createPlatformAccount(CreatePlatformAccountInput)
    \/ createContent(CreateContentInput)
    \/ createAIContentRequest(CreateAIContentRequestInput)

SpecOwners == Init /\ [][NextOwners]_vars

\* Scheduling: users, their content and accounts, and the posts pairing them.
NextPosts ==
    \/ createUser(DistinctUserInput)
    \/ createPlatformAccount(CreatePlatformAccountInput)
    \/ createContent(CreateContentInput)
    \/ createScheduledPost(CreateScheduledPostInput)

SpecPosts == Init /\ [][NextPosts]_vars

\* Campaign creation.
NextCampaigns ==
    \/ Tick
    \/ createUser(DistinctUserInput)
    \/ createCampaign(CreateCampaignInput)

SpecCampaigns == Init /\ [][NextCampaigns]_vars

\* Task creation against the rows a task may reference.
NextTaskRefs ==
    \/ createUser(DistinctUserInput)
    \/ createCampaign(OpenCampaignInput)
    \/ createContent(CreateContentInput)
    \/ (Cardinality(workflowTasksTable) < MaxTasks /\ createWorkflowTask(RefTaskInput))

SpecTaskRefs == Init /\ [][NextTaskRefs]_vars

\* The status life of a task.
NextTaskStatus ==
    \/ Tick
    \/ createUser(DistinctUserInput)
    \/ (Cardinality(workflowTasksTable) < MaxTasks /\ createWorkflowTask(PlainTaskInput))
    \/ updateWorkflowTaskStatus(UpdateWorkflowTaskStatusInput)

SpecTaskStatus == Init /\ [][NextTaskStatus]_vars

\* Campaigns and the metrics recorded for them.
NextMetrics ==
    \/ createUser(DistinctUserInput)
    \/ createCampaign(OpenCampaignInput)
    \/ createCampaignMetric(CreateCampaignMetricInput)

SpecMetrics == Init /\ [][NextMetrics]_vars

\* Every procedure that creates a row with a status.
NextCreation ==
    \/ createUser(SoloUserInput)
    \/ createPlatformAccount(CreatePlatformAccountInput)
    \/ createContent(CreateContentInput)
    \/ createScheduledPost(CreateScheduledPostInput)
    \/ createCampaign(CreateCampaignInput)
    \/ (Cardinality(workflowTasksTable) < MaxTasks /\ createWorkflowTask(PlainTaskInput))
    \/ createAIContentRequest(CreateAIContentRequestInput)

SpecCreation == Init /\ [][NextCreation]_vars

\* Calls made on behalf of the first user or of a user that was never registered.
ByFirstOrUnknown(Inputs) == {input \in Inputs : input.user_id \in {1, MaxId}}

\* Posts pairing the first content item with the first platform account.
FirstPairInput ==
    {input \in ByFirstOrUnknown(CreateScheduledPostInput) :
        input.content_id = 1 /\ input.platform_account_id = 1}

\* Metrics measured at the time of the call.
NowMetricInput ==
    {input \in CreateCampaignMetricInput :
        /\ input.measured_at = NULL /\ input.platform = "tiktok"
        /\ input.metric_name = "clicks" /\ input.campaign_id \in {1, MaxId}}

\* Trends scoring 50.
MidTrendInput ==
    {input \in CreateTrendInput : input.trending_score = 50 * One}

\* Every procedure of the router that writes.
NextLifecycle ==
    \/ createUser(SoloUserInput)
    \/ createPlatformAccount(ByFirstOrUnknown(CreatePlatformAccountInput))
    \/ createTrend(MidTrendInput)
    \/ createContent(ByFirstOrUnknown(CreateContentInput))
    \/ createScheduledPost(FirstPairInput)
    \/ createCampaign(ByFirstOrUnknown(OpenCampaignInput))
    \/ createCampaignMetric(NowMetricInput)
    \/ (Cardinality(workflowTasksTable) < MaxTasks
           /\ createWorkflowTask(ByFirstOrUnknown(PlainTaskInput)))
    \/ updateWorkflowTaskStatus(UpdateWorkflowTaskStatusInput)
    \/ createAIContentRequest(ByFirstOrUnknown(CreateAIContentRequestInput))

SpecLifecycle == Init /\ [][NextLifecycle]_vars

\* Trend monitoring.
NextTrends ==
    \/ Tick
    \/ (Cardinality(trendsTable) < MaxListed /\ createTrend(CreateTrendInput))
    \/ getTrends(GetTrendsInput)

SpecTrends == Init /\ [][NextTrends]_vars

\* Content and its listing.
NextContent ==
    \/ Tick
    \/ createUser(DistinctUserInput)
    \/ (Cardinality(contentTable) < MaxContent /\ createContent(FilterableContentInput))
    \/ getContentByUser(GetContentByUserInput)

SpecContent == Init /\ [][NextContent]_vars

\* The two listings that look the user up first.
NextOwnerQueries ==
    \/ createUser(DistinctUserInput)
    \/ createPlatformAccount(CreatePlatformAccountInput)
    \/ createContent(CreateContentInput)
    \/ getContentByUser(RouterContentInput)
    \/ getPlatformAccountsByUser(GetPlatformAccountsByUserInput)

SpecOwnerQueries == Init /\ [][NextOwnerQueries]_vars

\* Completion of an existing or a missing task.
CompleteTaskInput ==
    {input \in UpdateWorkflowTaskStatusInput :
        input.status = "completed" /\ input.taskId # 0}

\* Tasks, their status and their listing.
NextTaskQueries ==
    \/ createUser(DistinctUserInput)
    \/ (Cardinality(workflowTasksTable) < MaxTasks
           /\ createWorkflowTask(AssignableTaskInput))
    \/ updateWorkflowTaskStatus(CompleteTaskInput)
    \/ getWorkflowTasksByUser(GetWorkflowTasksByUserInput)

SpecTaskQueries == Init /\ [][NextTaskQueries]_vars

\* Posts of a registered user, scheduled for either instant.
DatedPostInput ==
    [user_id : 1..MaxId, content_id : 1..MaxId, platform_account_id : 1..MaxId,
     scheduled_at : Dates]

\* Scheduling and the listing of posts.
NextPostQueries ==
    \/ createUser(DistinctUserInput)
    \/ createPlatformAccount(CreatePlatformAccountInput)
    \/ createContent(CreateContentInput)
    \/ createScheduledPost(DatedPostInput)
    \/ getScheduledPostsByUser(GetScheduledPostsByUserInput)

SpecPostQueries == Init /\ [][NextPostQueries]_vars

\* Metrics with a measurement time of their own.
MeasuredMetricInput ==
    {input \in CreateCampaignMetricInput :
        input.measured_at # NULL /\ input.campaign_id # 0}

\* Campaign metrics and their listing.
NextMetricQueries ==
    \/ createUser(SoloUserInput)
    \/ createCampaign(ByFirstOrUnknown(OpenCampaignInput))
    \/ (Cardinality(campaignMetricsTable) < MaxListed
           /\ createCampaignMetric(MeasuredMetricInput))
    \/ getCampaignMetrics(GetCampaignMetricsInput)

SpecMetricQueries == Init /\ [][NextMetricQueries]_vars

\* AI content requests and their listing.
NextRequestQueries ==
    \/ Tick
    \/ createUser(DistinctUserInput)
    \/ (Cardinality(aiContentRequestsTable) < MaxListed
           /\ createAIContentRequest(CreateAIContentRequestInput))
    \/ getAIContentRequestsByUser(GetAIContentRequestsByUserInput)

SpecRequestQueries == Init /\ [][NextRequestQueries]_vars

\* Budgets: none, zero, a whole amount, and one with a third decimal.
Budgets == {NULL, 0, 250 * One, One + 500}

\* Open-ended campaigns of a registered user, with or without a budget.
BudgetedCampaignInput ==
    [user_id : 1..MaxId, name : {"Campaign"}, description : {NULLTEXT},
     start_date : {0}, end_date : {NULL}, budget : Budgets,
     target_platforms : {<<"tiktok">>}, goals : {NULLTEXT}]

\* Campaigns and their listing.
NextCampaignQueries ==
    \/ createUser(DistinctUserInput)
    \/ (Cardinality(campaignsTable) < MaxListed
           /\ createCampaign(BudgetedCampaignInput))
    \/ getCampaignsByUser(GetCampaignsByUserInput)

SpecCampaignQueries == Init /\ [][NextCampaignQueries]_vars

\* Trends whose rates and scores lie at the ends of the accepted ranges or
\* carry more than two decimals.
NumericTrendInput ==
    [platform : {"instagram"}, hashtag : {"#edgecase"}, keyword : {NULLTEXT},
     volume : {0}, engagement_rate : {1000, One + 500, 100 * One},
     sentiment_score : {0 - One, 0 - 500, One - 1},
     trending_score : {0, 50 * One + 400, 100 * One - 1}]

\* The recording of trends.
NextTrendValues ==
    Cardinality(trendsTable) < MaxTrends /\ createTrend(NumericTrendInput)

SpecTrendValues == Init /\ [][NextTrendValues]_vars

\* Listings of the first user's posts in each status.
PostStatusQueryInput == [userId : {1}, status : PostStatus]

\* Every procedure of the router that writes, and the listing of posts.
NextPostLifecycle ==
    \/ NextLifecycle
    \/ getScheduledPostsByUser(PostStatusQueryInput)

SpecPostLifecycle == Init /\ [][NextPostLifecycle]_vars

\* Calls made on behalf of users that may be registered.
ByRegistered(Inputs) == {input \in Inputs : input.user_id # 0}

\* Calls made on behalf of the first user.
ByFirst(Inputs) == {input \in Inputs : input.user_id = 1}

\* Posts of either user that pair the first content item with the first account.
SharedPairInput ==
    [user_id : 1..MaxId, content_id : {1}, platform_account_id : {1},
     scheduled_at : {MaxTime}]

\* Tasks of the first user that may reference the first campaign.
LinkedTaskInput ==
    {input \in CreateWorkflowTaskInput :
        /\ input.user_id = 1 /\ input.priority = "medium"
        /\ input.campaign_id \in {NULL, 1} /\ input.content_id = NULL
        /\ input.assigned_to = NULL}

\* Status changes that approve or complete the first task.
SettleTaskInput == [taskId : {1}, status : {"approved", "completed"}]

\* Calls of createScheduledPost, createWorkflowTask and
\* updateWorkflowTaskStatus running statement by statement, among calls of
\* the other procedures.
NextInterleaved ==
    \/ createUser(DistinctUserInput)
    \/ createContent(ByFirst(CreateContentInput))
    \/ createPlatformAccount(ByRegistered(CreatePlatformAccountInput))
    \/ createCampaign(ByFirst(OpenCampaignInput))
    \/ (workflowTasksTable = {} /\ createWorkflowTask(ByFirst(LinkedTaskInput)))
    \/ \E c \in Calls : StartCall(c, "createScheduledPost", SharedPairInput)
    \/ \E c \in Calls : StartCall(c, "createWorkflowTask", LinkedTaskInput)
    \/ \E c \in Calls : StartCall(c, "updateWorkflowTaskStatus", SettleTaskInput)
    \/ \E c \in Calls : ResumeCall(c)

SpecInterleaved == Init /\ [][NextInterleaved]_vars

\* Tasks of a registered user that may reference the first campaign and the
\* first content item.
CrossTaskInput ==
    {input \in CreateWorkflowTaskInput :
        /\ input.user_id # 0 /\ input.priority = "medium" /\ input.assigned_to = NULL
        /\ input.campaign_id \in {NULL, 1} /\ input.content_id \in {NULL, 1}}

\* Tasks and posts created against campaigns and content of either user.
NextForeignRefs ==
    \/ createUser(DistinctUserInput)
    \/ createCampaign(ByRegistered(OpenCampaignInput))
    \/ createContent(ByRegistered(CreateContentInput))
    \/ (Cardinality(workflowTasksTable) < MaxTasks /\ createWorkflowTask(CrossTaskInput))
    \/ createScheduledPost(SharedPairInput)

SpecForeignRefs == Init /\ [][NextForeignRefs]_vars

\* Tasks of the current user that reference nothing and are assigned to nobody.
OwnTaskInput ==
    {input \in PlainTaskInput : input.user_id = CurrentUser /\ input.assigned_to = NULL}

\* The workflow view: the list is loaded and the status of listed tasks is
\* changed, the requests being served and answered in any order.
NextStatusChanges ==
    \/ createUser(SoloUserInput)
    \/ (Cardinality(workflowTasksTable) < MaxTasks /\ createWorkflowTask(OwnTaskInput))
    \/ Mount({"workflow"})
    \/ handleStatusChange({"approved", "rejected"})
    \/ \E r \in Requests : Serve(r)
    \/ \E r \in Requests : Deliver(r)

SpecStatusChanges == Init /\ [][NextStatusChanges]_vars

\* One post of the current user, pairing the first content item with the
\* first platform account.
OwnPostInput ==
    {input \in SharedPairInput : input.user_id = CurrentUser}

\* The workflow view or the scheduling view: the list is loaded when the view
\* is shown and again whenever a filter is changed, the requests being served
\* and answered in any order.
NextLoads ==
    \/ createUser(SoloUserInput)
    \/ (workflowTasksTable = {} /\ createWorkflowTask(OwnTaskInput))
    \/ (contentTable = {} /\ createContent(ByFirst(CreateContentInput)))
    \/ (platformAccountsTable = {}
           /\ createPlatformAccount(ByFirst(CreatePlatformAccountInput)))
    \/ (scheduledPostsTable = {} /\ createScheduledPost(OwnPostInput))
    \/ Mount({"workflow", "scheduling"})
    \/ setFilterStatus({"all", "completed", "scheduled"})
    \/ setFilterPriority({"all", "high"})
    \/ \E r \in Requests : Serve(r)
    \/ \E r \in Requests : Deliver(r)

SpecLoads == Init /\ [][NextLoads]_vars

\* ---------------------------------------------------------------- properties
\* A step in which procedure op was called.  A call whose result repeats the
\* previous one is a rejected call, which writes nothing: a stuttering step.
Called(op) == last' # last /\ last'.op = op

UserIds == {u.id : u \in usersTable}

\* The rows of a table that carry the given id but another owner.
ForeignRows(table, id, user_id) ==
    {r \in table : r.id = id /\ r.user_id # user_id}

\* ---- C1
PostsReferenceOwnRows ==
    \A p \in scheduledPostsTable :
        /\ \E c \in contentTable : c.id = p.content_id /\ c.user_id = p.user_id
        /\ \E a \in platformAccountsTable :
               a.id = p.platform_account_id /\ a.user_id = p.user_id

ForeignReference(input) ==
    \/ ForeignRows(contentTable, input.content_id, input.user_id) # {}
    \/ ForeignRows(platformAccountsTable, input.platform_account_id, input.user_id) # {}

NotOwnedErrors ==
    {"Content with id N does not belong to user M",
     "Platform account with id N does not belong to user M"}

\* C1 as stated: every scheduled post references a content item and a platform
\* account of the post's own user, and a createScheduledPost call whose content
\* item or platform account belongs to a different user fails with a 'does not
\* belong to user' error.
C1_AsStated ==
    /\ PostsReferenceOwnRows
    /\ (last.op = "createScheduledPost" /\ ForeignReference(last.input))
           => (~last.ok /\ last.err \in NotOwnedErrors)

\* C1 amended: every scheduled post references a content item and a platform
\* account of the post's own user; a createScheduledPost call whose content item
\* or platform account belongs to a different user fails and inserts nothing,
\* and its error is a 'does not belong to user' error when the user and the
\* content item exist.
C1_ForeignRejected ==
    [][/\ PostsReferenceOwnRows'
       /\ (Called("createScheduledPost") /\ ForeignReference(last'.input))
              => /\ ~last'.ok
                 /\ scheduledPostsTable' = scheduledPostsTable
                 /\ (/\ last'.input.user_id \in UserIds
                     /\ \E c \in contentTable : c.id = last'.input.content_id)
                        => last'.err \in NotOwnedErrors]_vars

\* A call rejected only because the platform account is someone else's.
C1_Witness ==
    /\ last.op = "createScheduledPost"
    /\ last.err = "Platform account with id N does not belong to user M"
    /\ ForeignRows(platformAccountsTable, last.input.platform_account_id,
                   last.input.user_id) # {}
    /\ ForeignRows(contentTable, last.input.content_id, last.input.user_id) = {}

\* ---- C2
\* C2: every workflow task has completed_at non-null exactly when its status is
\* 'completed', after creation and after any sequence of status updates.
C2_CompletedAtIffCompleted ==
    \A t \in workflowTasksTable : (t.completed_at # NULL) <=> (t.status = "completed")

\* A task that was updated to 'completed' next to one that is not completed.
C2_Witness ==
    /\ last.op = "updateWorkflowTaskStatus" /\ last.ok
    /\ \E t \in workflowTasksTable : t.status = "completed" /\ t.completed_at # NULL
    /\ \E t \in workflowTasksTable :
           t.status = "rejected" /\ t.completed_at = NULL /\ t.updated_at > t.created_at

\* ---- C3
CampaignDatesOrdered ==
    \A c \in campaignsTable : c.end_date # NULL => c.start_date < c.end_date

\* C3 as stated: a createCampaign call with a non-null end_date that is not after
\* start_date fails with 'Start date must be before end date', and every stored
\* campaign with an end date has start_date < end_date.
C3_AsStated ==
    /\ CampaignDatesOrdered
    /\ (/\ last.op = "createCampaign"
        /\ last.input.end_date # NULL
        /\ last.input.start_date >= last.input.end_date)
           => (~last.ok /\ last.err = "Start date must be before end date")

\* C3 amended: createCampaign with a non-null end_date succeeds only when
\* start_date is strictly before end_date; when start_date is equal to or after
\* end_date it fails and inserts no campaign, with 'Start date must be before end
\* date' when the user exists; every stored campaign with an end date has
\* start_date < end_date.
C3_DateOrderEnforced ==
    [][/\ CampaignDatesOrdered'
       /\ (Called("createCampaign") /\ last'.input.end_date # NULL)
              => /\ last'.ok => last'.input.start_date < last'.input.end_date
                 /\ last'.input.start_date >= last'.input.end_date
                        => /\ ~last'.ok
                           /\ campaignsTable' = campaignsTable
                           /\ last'.input.user_id \in UserIds
                                  => last'.err = "Start date must be before end date"]_vars

\* An existing user's campaign rejected for equal dates.
C3_Witness ==
    /\ last.op = "createCampaign"
    /\ last.err = "Start date must be before end date"
    /\ last.input.start_date = last.input.end_date
    /\ campaignsTable # {}

\* ---- C4
UsersUnique ==
    \A u, v \in usersTable :
        (u.email = v.email \/ u.username = v.username) => u = v

OwnersExist ==
    /\ \A c \in contentTable : c.user_id \in UserIds
    /\ \A a \in platformAccountsTable : a.user_id \in UserIds
    /\ \A r \in aiContentRequestsTable : r.user_id \in UserIds

OwnedBy == {"createContent", "createPlatformAccount", "createAIContentRequest"}

UserErrors == {"User with id N does not exist", "User with id N not found"}

\* C5: the user_id of every content, platform account and AI content request row
\* identifies an existing user; createContent, createPlatformAccount and
\* createAIContentRequest called with a user_id that matches no user fail with an
\* error naming that id and insert no row.
C5_OwnersExist ==
    [][/\ OwnersExist'
       /\ (/\ last' # last
           /\ last'.op \in OwnedBy
           /\ last'.input.user_id \notin UserIds)
              => /\ ~last'.ok
                 /\ last'.err \in UserErrors
                 /\ last'.errIds = <<last'.input.user_id>>
                 /\ UNCHANGED tables]_vars

\* An AI content request rejected for a missing user while all three tables
\* hold rows.
C5_Witness ==
    /\ last.op = "createAIContentRequest" /\ ~last.ok
    /\ last.input.user_id \notin UserIds
    /\ contentTable # {} /\ platformAccountsTable # {} /\ aiContentRequestsTable # {}

\* ---- C6
\* The five checks in the order the claim gives them; check k fails when:
CheckFails(k, input) ==
    CASE k = 1 -> input.user_id \notin UserIds
      [] k = 2 -> \A c \in contentTable : c.id # input.content_id
      [] k = 3 -> ForeignRows(contentTable, input.content_id, input.user_id) # {}
      [] k = 4 -> \A a \in platformAccountsTable : a.id # input.platform_account_id
      [] k = 5 -> ForeignRows(platformAccountsTable, input.platform_account_id,
                              input.user_id) # {}

CheckError ==
    <<"User with id N does not exist",
      "Content with id N does not exist",
      "Content with id N does not belong to user M",
      "Platform account with id N does not exist",
      "Platform account with id N does not belong to user M">>

FailingChecks(input) == {k \in 1..5 : CheckFails(k, input)}

FirstFailingError(input) ==
    IF FailingChecks(input) = {} THEN ""
    ELSE CheckError[CHOOSE k \in FailingChecks(input) :
                        \A j \in FailingChecks(input) : k <= j]

\* C6: createScheduledPost checks that the user exists, the content exists, the
\* content belongs to the user, the platform account exists and the account
\* belongs to the user, in this order; the first check that fails determines the
\* error, and on any failure no scheduled post is inserted.
C6_FirstFailingCheck ==
    [][Called("createScheduledPost")
          => /\ last'.err = FirstFailingError(last'.input)
             /\ last'.ok <=> FailingChecks(last'.input) = {}
             /\ ~last'.ok => scheduledPostsTable' = scheduledPostsTable]_vars

\* A call that fails a content check and a platform account check at once.
C6_Witness ==
    /\ last.op = "createScheduledPost" /\ ~last.ok
    /\ FailingChecks(last.input) \cap {2, 3} # {}
    /\ FailingChecks(last.input) \cap {4, 5} # {}
    /\ 1 \notin FailingChecks(last.input)

\* ---- C7
NotFoundErrors ==
    {"User with id N not found", "Assigned user with id N not found",
     "Campaign with id N not found", "Content with id N not found"}

\* A reference the caller provided that names no row.
DanglingReference(input) ==
    \/ input.user_id \notin UserIds
    \/ (input.assigned_to # NULL /\ input.assigned_to \notin UserIds)
    \/ (input.campaign_id # NULL /\ \A c \in campaignsTable : c.id # input.campaign_id)
    \/ (input.content_id # NULL /\ \A c \in contentTable : c.id # input.content_id)

TaskReferencesExist ==
    \A t \in workflowTasksTable :
        /\ t.user_id \in UserIds
        /\ t.assigned_to # NULL => t.assigned_to \in UserIds
        /\ t.campaign_id # NULL => \E c \in campaignsTable : c.id = t.campaign_id
        /\ t.content_id # NULL => \E c \in contentTable : c.id = t.content_id

\* C7: createWorkflowTask fails with a 'not found' error when user_id, or a
\* provided assigned_to, campaign_id or content_id, matches no existing row; when
\* it succeeds, every non-null reference stored in the task identifies an
\* existing row.
C7_DanglingRejected ==
    /\ TaskReferencesExist
    /\ (last.op = "createWorkflowTask" /\ DanglingReference(last.input))
           => (~last.ok /\ last.err \in NotFoundErrors)

\* ---- C8
\* C8: updateWorkflowTaskStatus called with a taskId that matches no workflow
\* task fails with 'Workflow task with id N not found', N being that taskId, and
\* leaves every workflow task row unchanged.
C8_MissingTaskRejected ==
    [][(/\ Called("updateWorkflowTaskStatus")
        /\ \A t \in workflowTasksTable : t.id # last'.input.taskId)
           => /\ ~last'.ok
              /\ last'.err = "Workflow task with id N not found"
              /\ last'.errIds = <<last'.input.taskId>>
              /\ workflowTasksTable' = workflowTasksTable]_vars

\* An update rejected although other tasks exist.
C8_Witness ==
    /\ last.op = "updateWorkflowTaskStatus" /\ ~last.ok
    /\ workflowTasksTable # {}
    /\ \A t \in workflowTasksTable : t.id # last.input.taskId

\* ---- C9
\* The columns an update must leave alone.
SameButStatus(t, u) ==
    /\ u.id = t.id /\ u.user_id = t.user_id
    /\ u.campaign_id = t.campaign_id /\ u.content_id = t.content_id
    /\ u.title = t.title /\ u.description = t.description
    /\ u.priority = t.priority /\ u.assigned_to = t.assigned_to
    /\ u.due_date = t.due_date /\ u.created_at = t.created_at

\* C9: a successful updateWorkflowTaskStatus changes only status, completed_at
\* and updated_at of the addressed task; its other columns, every other workflow
\* task and every other table are unchanged.
C9_OnlyStatusColumns ==
    [][(Called("updateWorkflowTaskStatus") /\ last'.ok)
           => /\ \A t \in workflowTasksTable :
                     IF t.id = last'.input.taskId
                     THEN \E u \in workflowTasksTable' : SameButStatus(t, u)
                     ELSE t \in workflowTasksTable'
              /\ Cardinality(workflowTasksTable') = Cardinality(workflowTasksTable)
              /\ UNCHANGED <<usersTable, platformAccountsTable, contentTable,
                             scheduledPostsTable, campaignsTable,
                             aiContentRequestsTable>>]_vars

\* An assigned task updated at a later instant while another task exists.
C9_Witness ==
    /\ last.op = "updateWorkflowTaskStatus" /\ last.ok
    /\ last.row.assigned_to # NULL
    /\ last.row.updated_at > last.row.created_at
    /\ \E t \in workflowTasksTable : t.id # last.input.taskId /\ t.status # last.row.status

\* ---- C10
\* C10: updateWorkflowTaskStatus on an existing task succeeds for every requested
\* status from every current status, and afterwards the stored and the returned
\* status equal the requested one.
C10_AnyStatusAccepted ==
    /\ [](\A t \in workflowTasksTable : \A st \in WorkflowStatus :
              LET out == updateWorkflowTaskStatusOutcome([taskId |-> t.id, status |-> st])
              IN  out.ok /\ out.row.id = t.id /\ out.row.status = st)
    /\ [][(/\ Called("updateWorkflowTaskStatus")
            /\ \E t \in workflowTasksTable : t.id = last'.input.taskId)
               => /\ last'.ok
                  /\ last'.row.status = last'.input.status
                  /\ \E u \in workflowTasksTable' :
                         u.id = last'.input.taskId /\ u.status = last'.input.status]_vars

\* A task an update has just completed, next to a pending one: a state from
\* which every status, 'completed' again included, can be requested.
C10_Witness ==
    /\ last.op = "updateWorkflowTaskStatus" /\ last.ok
    /\ last.row.status = "completed"
    /\ last.row \in workflowTasksTable
    /\ \E t \in workflowTasksTable : t.status = "pending"

MetricsReferenceCampaigns ==
    \A m \in campaignMetricsTable : \E c \in campaignsTable : c.id = m.campaign_id

\* C12: createCampaignMetric called with a campaign_id that matches no campaign
\* fails and inserts no campaign_metrics row, so every stored metric references
\* an existing campaign.
C12_MetricsReferenceCampaigns ==
    [][/\ MetricsReferenceCampaigns'
       /\ (/\ Called("createCampaignMetric")
           /\ \A c \in campaignsTable : c.id # last'.input.campaign_id)
              => (~last'.ok /\ campaignMetricsTable' = campaignMetricsTable)]_vars

\* A metric rejected for its campaign_id while another campaign has metrics.
C12_Witness ==
    /\ last.op = "createCampaignMetric" /\ ~last.ok
    /\ \A c \in campaignsTable : c.id # last.input.campaign_id
    /\ campaignMetricsTable # {}

\* ---- C13
\* The row a successful call returned, as the table holds it.
Stored(table) == last'.ok /\ last'.row \in table

\* C13: whatever the input, createScheduledPost stores status 'draft' with
\* platform_post_id, error_message and published_at null; createWorkflowTask
\* stores status 'pending' with completed_at null; createAIContentRequest stores
\* status 'pending' with generated_content and error_message null; createCampaign
\* stores status 'planning'.
C13_InitialState ==
    [][/\ (Called("createScheduledPost") /\ last'.ok)
              => /\ Stored(scheduledPostsTable') /\ last'.row \notin scheduledPostsTable
                 /\ last'.row.status = "draft"
                 /\ last'.row.platform_post_id = NULLTEXT
                 /\ last'.row.error_message = NULLTEXT
                 /\ last'.row.published_at = NULL
       /\ (Called("createWorkflowTask") /\ last'.ok)
              => /\ Stored(workflowTasksTable') /\ last'.row \notin workflowTasksTable
                 /\ last'.row.status = "pending"
                 /\ last'.row.completed_at = NULL
       /\ (Called("createAIContentRequest") /\ last'.ok)
              => /\ Stored(aiContentRequestsTable')
                 /\ last'.row \notin aiContentRequestsTable
                 /\ last'.row.status = "pending"
                 /\ last'.row.generated_content = NULLTEXT
                 /\ last'.row.error_message = NULLTEXT
       /\ (Called("createCampaign") /\ last'.ok)
              => /\ Stored(campaignsTable') /\ last'.row \notin campaignsTable
                 /\ last'.row.status = "planning"]_vars

\* A post just created while a task, a campaign or an AI request exists too.
C13_Witness ==
    /\ last.op = "createScheduledPost" /\ last.ok
    /\ last.row \in scheduledPostsTable
    /\ workflowTasksTable # {} \/ campaignsTable # {} \/ aiContentRequestsTable # {}

\* ---- C14
\* Every row of `old` is in `new` under the same id.
Persist(old, new) == \A r \in old : \E q \in new : q.id = r.id
\* ... and with the same owner.
PersistOwned(old, new) ==
    \A r \in old : \E q \in new : q.id = r.id /\ q.user_id = r.user_id

\* C14: no procedure removes a row or changes a row's id or owner: a user,
\* platform account, content item, scheduled post, campaign, campaign metric,
\* workflow task, trend or AI content request that exists is there, with the same
\* id and the same user_id, after every step.
C14_RowsPersist ==
    [][/\ Persist(usersTable, usersTable')
       /\ Persist(trendsTable, trendsTable')
       /\ Persist(campaignMetricsTable, campaignMetricsTable')
       /\ PersistOwned(platformAccountsTable, platformAccountsTable')
       /\ PersistOwned(contentTable, contentTable')
       /\ PersistOwned(scheduledPostsTable, scheduledPostsTable')
       /\ PersistOwned(campaignsTable, campaignsTable')
       /\ PersistOwned(workflowTasksTable, workflowTasksTable')
       /\ PersistOwned(aiContentRequestsTable, aiContentRequestsTable')]_vars

\* Two tasks, one of which an update has just rewritten.
C14_Witness ==
    /\ last.op = "updateWorkflowTaskStatus" /\ last.ok
    /\ last.row.status # "pending"
    /\ Cardinality(workflowTasksTable) = 2
    /\ \E t \in workflowTasksTable : t.id # last.row.id

\* ---- C15
\* The trends a getTrends call selects from.
Candidates(input) ==
    {t \in trendsTable : input.platform # NULLTEXT => t.platform = input.platform}

\* Trend a ranks above trend b.
RanksAbove(a, b) ==
    \/ a.trending_score > b.trending_score
    \/ (a.trending_score = b.trending_score /\ a.detected_at > b.detected_at)

\* C15: getTrends(platform, limit) returns the first `limit` (default 50) trends,
\* restricted to `platform` when one is given, by descending trending_score with
\* ties broken by descending detected_at; no trend left out of the result ranks
\* above a trend that is in it.
C15_TopTrends ==
    [][Called("getTrends")
          => LET input == last'.input
                 rows == last'.rows
                 limit == IF input.limit = NULL THEN 50 ELSE input.limit
             IN  /\ last'.ok
                 /\ Range(rows) \subseteq Candidates(input)
                 /\ Len(rows) = Min(limit, Cardinality(Candidates(input)))
                 /\ Cardinality(Range(rows)) = Len(rows)
                 /\ \A i, j \in 1..Len(rows) : i < j => ~RanksAbove(rows[j], rows[i])
                 /\ \A t \in Candidates(input) \ Range(rows) :
                        \A r \in Range(rows) : ~RanksAbove(t, r)]_vars

\* A call limited to one trend that leaves out a trend of the same score
\* detected earlier.
C15_Witness ==
    /\ last.op = "getTrends" /\ last.ok
    /\ last.input.limit = 1 /\ Len(last.rows) = 1
    /\ \E t \in Candidates(last.input) :
           /\ t.trending_score = last.rows[1].trending_score
           /\ t.detected_at < last.rows[1].detected_at

\* ---- C16
\* The content rows a getContentByUser call is about.
OwnMatching(input) ==
    {c \in contentTable :
        /\ c.user_id = input.userId
        /\ input.content_type # NULLTEXT => c.content_type = input.content_type
        /\ input.ai_generated # NULLTEXT
               => (c.ai_generated <=> input.ai_generated = "true")}

LimitOf(input) == IF input.limit = NULL THEN 20 ELSE input.limit
OffsetOf(input) == IF input.offset = NULL THEN 0 ELSE input.offset

NewestFirst(rows) ==
    \A i, j \in 1..Len(rows) : i < j => rows[i].created_at >= rows[j].created_at

\* Input b asks for the page that follows the page input a asks for.
NextPage(a, b) ==
    /\ a.userId = b.userId /\ a.content_type = b.content_type
    /\ a.ai_generated = b.ai_generated
    /\ a.limit # NULL /\ a.limit > 0 /\ b.limit = a.limit
    /\ b.offset = OffsetOf(a) + a.limit

\* C16: for an existing user, getContentByUser returns only content rows owned by
\* that user that match the optional content_type and ai_generated filters,
\* newest created_at first, skipping `offset` (default 0) rows and returning at
\* most `limit` (default 20) rows; pages requested with consecutive offsets are
\* disjoint and contiguous in that order.
C16_Pagination ==
    [][(Called("getContentByUser") /\ last'.input.userId \in UserIds)
          => LET input == last'.input
                 rows == last'.rows
                 left == Cardinality(OwnMatching(input)) - OffsetOf(input)
             IN  /\ last'.ok
                 /\ Range(rows) \subseteq OwnMatching(input)
                 /\ Cardinality(Range(rows)) = Len(rows)
                 /\ NewestFirst(rows)
                 /\ Len(rows) <= LimitOf(input)
                 /\ Len(rows) = Min(LimitOf(input), IF left < 0 THEN 0 ELSE left)
                 /\ (/\ last.op = "getContentByUser" /\ last.ok
                     /\ NextPage(last.input, input))
                        => /\ Range(last.rows) \cap Range(rows) = {}
                           /\ NewestFirst(last.rows \o rows)
                           /\ Len(last.rows) < input.limit => rows = <<>>]_vars

\* ---- C17
UserNotFound == {"User with id N not found", "User with ID N not found"}

\* The rows of the table a listing reads that the user owns.
OwnRows(op, userId) ==
    IF op = "getContentByUser"
    THEN {c \in contentTable : c.user_id = userId}
    ELSE {a \in platformAccountsTable : a.user_id = userId}

\* C17: getContentByUser and getPlatformAccountsByUser fail with a 'not found'
\* error when the user id matches no user, rather than returning an empty list;
\* for an existing user with no rows they return an empty list.
C17_UnknownUserRejected ==
    [][(/\ last' # last
        /\ last'.op \in {"getContentByUser", "getPlatformAccountsByUser"})
           => /\ last'.input.userId \notin UserIds
                     => /\ ~last'.ok
                        /\ last'.err \in UserNotFound
                        /\ last'.errIds = <<last'.input.userId>>
              /\ (/\ last'.input.userId \in UserIds
                  /\ OwnRows(last'.op, last'.input.userId) = {})
                     => (last'.ok /\ last'.rows = <<>>)]_vars

\* A listing of platform accounts rejected for its user while another user has
\* accounts and content.
C17_Witness ==
    /\ last.op = "getPlatformAccountsByUser" /\ ~last.ok
    /\ last.input.userId \notin UserIds
    /\ platformAccountsTable # {} /\ contentTable # {}

\* ---- C18
\* The tasks the claim says a getWorkflowTasksByUser call returns.
TasksFor(input) ==
    {t \in workflowTasksTable :
        /\ CASE input.assignedToMe = "true" -> t.assigned_to = input.userId
             [] input.assignedToMe = "false" -> t.user_id = input.userId
             [] OTHER -> t.user_id = input.userId \/ t.assigned_to = input.userId
        /\ input.status # NULLTEXT => t.status = input.status
        /\ input.priority # NULLTEXT => t.priority = input.priority}

\* C18: getWorkflowTasksByUser returns exactly the tasks that satisfy the user
\* condition (assigned_to = userId when assignedToMe is true, user_id = userId
\* when it is false, either of the two when it is omitted) and that match the
\* status and priority filters when those are given.
C18_ExactlyMatchingTasks ==
    [][Called("getWorkflowTasksByUser")
          => /\ last'.ok
             /\ Range(last'.rows) = TasksFor(last'.input)
             /\ Len(last'.rows) = Cardinality(TasksFor(last'.input))]_vars

\* A listing without the flag that returns a task the user created next to a
\* task of another creator assigned to that user.
C18_Witness ==
    /\ last.op = "getWorkflowTasksByUser" /\ last.ok
    /\ last.input.assignedToMe = NULLTEXT
    /\ \E t, u \in Range(last.rows) :
           /\ t.user_id = last.input.userId /\ t.assigned_to # last.input.userId
           /\ u.user_id # last.input.userId /\ u.assigned_to = last.input.userId

\* ---- C19
\* The posts the claim says a getScheduledPostsByUser call returns.
PostsFor(input) ==
    {p \in scheduledPostsTable :
        /\ p.user_id = input.userId
        /\ input.status # NULLTEXT => p.status = input.status}

\* C19: getScheduledPostsByUser returns exactly the scheduled posts whose user_id
\* is userId (and whose status equals the filter when one is given), ordered by
\* scheduled_at descending; the inner joins with content and platform accounts
\* never drop a post of that user.
C19_ExactlyOwnPosts ==
    [][Called("getScheduledPostsByUser")
          => LET rows == last'.rows
             IN  /\ last'.ok
                 /\ Range(rows) = PostsFor(last'.input)
                 /\ Len(rows) = Cardinality(PostsFor(last'.input))
                 /\ \A i, j \in 1..Len(rows) :
                        i < j => rows[i].scheduled_at >= rows[j].scheduled_at]_vars

\* A listing of two posts scheduled for different instants, the later of which
\* was created first.
C19_Witness ==
    /\ last.op = "getScheduledPostsByUser" /\ last.ok
    /\ Len(last.rows) = 2
    /\ last.rows[1].scheduled_at > last.rows[2].scheduled_at
    /\ last.rows[1].id < last.rows[2].id

\* ---- C20
\* The metrics the claim says a getCampaignMetrics call returns.
MetricsFor(input) ==
    {m \in campaignMetricsTable :
        /\ m.campaign_id = input.campaignId
        /\ input.platform # NULLTEXT => m.platform = input.platform
        /\ input.metricName # NULLTEXT => m.metric_name = input.metricName}

RequestsFor(input) ==
    {r \in aiContentRequestsTable : r.user_id = input.userId}

\* C21: getAIContentRequestsByUser(userId) returns exactly the stored AI
\* content requests whose user_id is userId, each once and whatever its status,
\* newest created_at first; a request of another user is never in the result.
C21_ExactlyOwnRequests ==
    [][Called("getAIContentRequestsByUser")
          => LET rows == last'.rows
             IN  /\ last'.ok
                 /\ Range(rows) = RequestsFor(last'.input)
                 /\ Len(rows) = Cardinality(RequestsFor(last'.input))
                 /\ \A i, j \in 1..Len(rows) :
                        i < j => rows[i].created_at >= rows[j].created_at
                 /\ \A i \in 1..Len(rows) :
                        rows[i].user_id = last'.input.userId]_vars

\* A listing that returns a user's two requests, the later one first, while a
\* request of another user is stored and left out.
C21_Witness ==
    /\ last.op = "getAIContentRequestsByUser" /\ last.ok
    /\ Len(last.rows) = 2
    /\ last.rows[1].created_at > last.rows[2].created_at
    /\ \E r \in aiContentRequestsTable : r.user_id # last.input.userId

\* ---- C22
\* The campaigns the claim says a getCampaignsByUser call returns.
CampaignsFor(input) ==
    {c \in campaignsTable :
        /\ c.user_id = input.userId
        /\ input.status # NULLTEXT => c.status = input.status}

\* C22: getCampaignsByUser(userId, status) returns exactly the stored campaigns
\* whose user_id is userId, each once, restricted to the given status when one
\* is passed; a campaign of another user is never in the result.
C22_ExactlyOwnCampaigns ==
    [][Called("getCampaignsByUser")
          => LET rows == last'.rows
             IN  /\ last'.ok
                 /\ {r.id : r \in Range(rows)} = {c.id : c \in CampaignsFor(last'.input)}
                 /\ Len(rows) = Cardinality(CampaignsFor(last'.input))
                 /\ \A i \in 1..Len(rows) :
                        /\ rows[i].user_id = last'.input.userId
                        /\ last'.input.status # NULLTEXT
                               => rows[i].status = last'.input.status]_vars

\* A listing by status that returns a user's two campaigns while a campaign of
\* another user, in the same status, is stored and left out.
C22_Witness ==
    /\ last.op = "getCampaignsByUser" /\ last.ok
    /\ last.input.status = "planning"
    /\ Len(last.rows) = 2
    /\ \E c \in campaignsTable :
           c.user_id # last.input.userId /\ c.status = last.input.status

\* ---- C23
\* C23: createCampaign stores and returns a given budget as a number, 0
\* included (the two-decimal value of the column), and returns null only when
\* the budget is omitted or null; getCampaignsByUser later returns for that
\* campaign the budget, number or null, that createCampaign returned.
C23_BudgetRoundTrip ==
    [][/\ (Called("createCampaign") /\ last'.ok)
           => /\ last'.row \in campaignsTable'
              /\ (last'.row.budget = NULL) <=> (last'.input.budget = NULL)
              /\ last'.input.budget # NULL
                     => last'.row.budget = ToNumeric(last'.input.budget, 2)
              /\ last'.input.budget = 0 => last'.row.budget = 0
       /\ Called("getCampaignsByUser")
           => \A i \in 1..Len(last'.rows) :
                  last'.rows[i].budget
                      = Row(campaignsTable, last'.rows[i].id).budget]_vars

\* A listing that returns a campaign created with budget 0 with the number 0,
\* next to one created without a budget, returned with null.
C23_Witness ==
    /\ last.op = "getCampaignsByUser" /\ last.ok
    /\ \E i, j \in 1..Len(last.rows) :
           /\ last.rows[i].budget = 0
           /\ last.rows[j].budget = NULL

\* ---- C24
\* The input is one that createTrendInputSchema accepts.
AcceptedTrend(input) ==
    /\ 0 <= input.engagement_rate /\ input.engagement_rate <= 100 * One
    /\ 0 - One <= input.sentiment_score /\ input.sentiment_score <= One
    /\ 0 <= input.trending_score /\ input.trending_score <= 100 * One

\* y is x as a two-decimal column holds it: the multiple of a hundredth
\* nearest to x, the one farther from zero when x lies halfway.
IsTwoDecimalsOf(y, x) ==
    /\ y % (One \div 100) = 0
    /\ 2 * Abs(y - x) <= One \div 100
    /\ 2 * Abs(y - x) = One \div 100 => Abs(y) > Abs(x)

\* C24: for every input that createTrendInputSchema accepts, createTrend
\* succeeds and returns engagement_rate, sentiment_score and trending_score
\* equal to the input values as the two-decimal numeric columns hold them.
C24_TrendNumericRoundTrip ==
    [][(Called("createTrend") /\ AcceptedTrend(last'.input))
          => /\ last'.ok
             /\ last'.row \in trendsTable'
             /\ IsTwoDecimalsOf(last'.row.engagement_rate, last'.input.engagement_rate)
             /\ IsTwoDecimalsOf(last'.row.sentiment_score, last'.input.sentiment_score)
             /\ IsTwoDecimalsOf(last'.row.trending_score, last'.input.trending_score)]_vars

\* A trend whose three values each carry more than two decimals: the rate is
\* returned rounded up, the sentiment rounded away from zero, and the score
\* rounded up to the end of its range.
C24_Witness ==
    /\ last.op = "createTrend" /\ last.ok
    /\ last.input.engagement_rate = One + 500 /\ last.row.engagement_rate = One + 1000
    /\ last.input.sentiment_score = 0 - 500 /\ last.row.sentiment_score = 0 - 1000
    /\ last.input.trending_score = 100 * One - 1 /\ last.row.trending_score = 100 * One

\* ---- C25
\* A post as createScheduledPost leaves it.
Untouched(p) ==
    /\ p.status = "draft"
    /\ p.published_at = NULL
    /\ p.platform_post_id = NULLTEXT
    /\ p.error_message = NULLTEXT

\* C25: no procedure of the router changes a scheduled post once it is
\* created: in every reachable state every scheduled post has status 'draft'
\* and null published_at, platform_post_id and error_message, and
\* getScheduledPostsByUser called with status 'scheduled', 'published' or
\* 'failed' returns an empty list.
C25_PostsStayDraft ==
    /\ [](\A p \in scheduledPostsTable : Untouched(p))
    /\ [][/\ \A p \in scheduledPostsTable : p \in scheduledPostsTable'
          /\ (Called("getScheduledPostsByUser")
                  /\ last'.input.status \in {"scheduled", "published", "failed"})
                 => last'.ok /\ last'.rows = <<>>]_vars

\* A listing by status 'published' that comes back empty for a user who has a
\* stored post, after a task of that user was updated.
C25_Witness ==
    /\ last.op = "getScheduledPostsByUser" /\ last.ok
    /\ last.input.status = "published" /\ last.rows = <<>>
    /\ \E p \in scheduledPostsTable : p.user_id = last.input.userId
    /\ \E t \in workflowTasksTable : t.status = "completed"

\* ---- C26
\* Call c runs its insert or update in this step.
WriteStep(c) ==
    /\ inflight[c].pc > 0
    /\ ~Returned(inflight[c])
    /\ Returned(inflight'[c])
    /\ Statements(inflight[c].op, inflight[c].input)[inflight[c].pc]
           \in {"insert", "update"}

\* Table holds a row of that id; with an owner given, a row of that owner.
Exists(table, id) == \E r \in table : r.id = id
Owned(table, id, user_id) == \E r \in table : r.id = id /\ r.user_id = user_id

\* What the handler of the call has checked holds in the tables as they are.
PreconditionsHold(call) ==
    LET input == call.input IN
    IF call.op = "createScheduledPost"
    THEN /\ Exists(usersTable, input.user_id)
         /\ Owned(contentTable, input.content_id, input.user_id)
         /\ Owned(platformAccountsTable, input.platform_account_id, input.user_id)
    ELSE IF call.op = "createWorkflowTask"
    THEN /\ Exists(usersTable, input.user_id)
         /\ TruthyNumber(input.assigned_to) => Exists(usersTable, input.assigned_to)
         /\ TruthyNumber(input.campaign_id) => Exists(campaignsTable, input.campaign_id)
         /\ TruthyNumber(input.content_id) => Exists(contentTable, input.content_id)
    ELSE Cardinality({t \in workflowTasksTable : t.id = input.taskId}) = 1

\* C26: with the statements of concurrent calls interleaved, everything a
\* handler has checked (the user, content item, platform account, campaign
\* or task exists; the content item and the account belong to the user)
\* still holds when its insert or update runs: updateWorkflowTaskStatus
\* updates exactly one row, and no stored post or task references a missing
\* row, nor a post a content item or account of another user.
C26_ChecksHoldAtWrite ==
    /\ [][\A c \in Calls :
              WriteStep(c)
                  => /\ PreconditionsHold(inflight[c])
                     /\ last'.ok /\ last'.input = inflight[c].input
                     /\ inflight[c].op = "updateWorkflowTaskStatus"
                            => /\ last'.row.id = inflight[c].input.taskId
                               /\ last'.row \in workflowTasksTable'
                               /\ Cardinality(workflowTasksTable' \ workflowTasksTable) <= 1
                               /\ \A t \in workflowTasksTable :
                                      t.id # last'.row.id => t \in workflowTasksTable']_vars
    /\ [](/\ \A p \in scheduledPostsTable :
                /\ Exists(usersTable, p.user_id)
                /\ Owned(contentTable, p.content_id, p.user_id)
                /\ Owned(platformAccountsTable, p.platform_account_id, p.user_id)
          /\ \A t \in workflowTasksTable :
                /\ Exists(usersTable, t.user_id)
                /\ t.campaign_id # NULL => Exists(campaignsTable, t.campaign_id)
                /\ t.content_id # NULL => Exists(contentTable, t.content_id)
                /\ t.assigned_to # NULL => Exists(usersTable, t.assigned_to))

\* Two status changes of one task overlapped: each call read the task while
\* it was pending, before either update ran, and both updates have run.
C26_Witness ==
    /\ last.op = "updateWorkflowTaskStatus" /\ last.ok
    /\ \E c, d \in Calls :
           /\ c # d
           /\ inflight[c].op = "updateWorkflowTaskStatus"
           /\ inflight[d].op = "updateWorkflowTaskStatus"
           /\ Returned(inflight[c]) /\ Returned(inflight[d])
           /\ inflight[c].input.taskId = inflight[d].input.taskId
           /\ inflight[c].input.status # inflight[d].input.status
           /\ \A r \in inflight[c].seen[1] \cup inflight[d].seen[1] : r.status = "pending"
           /\ inflight[c].seen[1] # {} /\ inflight[d].seen[1] # {}
           /\ last.input = inflight[d].input

\* ---- C27
\* Every row the input refers to is stored.
ReferencesExist(input) ==
    /\ Exists(usersTable, input.user_id)
    /\ TruthyNumber(input.assigned_to) => Exists(usersTable, input.assigned_to)
    /\ TruthyNumber(input.campaign_id) => Exists(campaignsTable, input.campaign_id)
    /\ TruthyNumber(input.content_id) => Exists(contentTable, input.content_id)

\* C27: createWorkflowTask checks that the referenced campaign, content item
\* and assignee exist and not who owns them: it succeeds, storing the task
\* with its references, whenever each referenced row exists, whoever owns it;
\* createScheduledPost, unlike it, rejects content owned by another user.
C27_OwnershipUnchecked ==
    [][/\ (Called("createWorkflowTask") /\ ReferencesExist(last'.input))
           => /\ last'.ok
              /\ last'.row \in workflowTasksTable'
              /\ last'.row.user_id = last'.input.user_id
              /\ last'.row.campaign_id = NumberOrNull(last'.input.campaign_id)
              /\ last'.row.content_id = NumberOrNull(last'.input.content_id)
       /\ (Called("createScheduledPost")
               /\ Exists(usersTable, last'.input.user_id)
               /\ Exists(contentTable, last'.input.content_id)
               /\ ~Owned(contentTable, last'.input.content_id, last'.input.user_id))
           => /\ ~last'.ok
              /\ last'.err = "Content with id N does not belong to user M"
              /\ scheduledPostsTable' = scheduledPostsTable]_vars

\* A task just stored for one user that references a campaign and a content
\* item of another user.
C27_Witness ==
    /\ last.op = "createWorkflowTask" /\ last.ok
    /\ last.row \in workflowTasksTable
    /\ \E c \in campaignsTable :
           c.id = last.row.campaign_id /\ c.user_id # last.row.user_id
    /\ \E c \in contentTable :
           c.id = last.row.content_id /\ c.user_id # last.row.user_id

\* ---- C28
\* The handleStatusChange calls issued for the task of that id.
StatusChangesOf(id) ==
    {r \in Requests :
        network[r].op = "updateWorkflowTaskStatus" /\ network[r].input.taskId = id}

\* The response of request r is handled in this step.
Delivered(r) == network[r].phase = 2 /\ network'[r].phase = 3

\* C28: in the WorkflowManagement view, once every handleStatusChange call
\* issued for a task has completed, the task held locally has the status of
\* the server's row, and its completed_at is null exactly when the server's
\* is; a handleStatusChange whose server call fails leaves the local task
\* list unchanged.
C28_LocalMatchesServer ==
    /\ [](\A i \in 1..Len(view.tasks) :
              LET task == view.tasks[i] IN
              (/\ StatusChangesOf(task.id) # {}
               /\ \A r \in StatusChangesOf(task.id) : network[r].phase = 3)
                  => \E row \in workflowTasksTable :
                         /\ row.id = task.id
                         /\ row.status = task.status
                         /\ (row.completed_at = NULL) <=> (task.completed_at = NULL))
    /\ [][\A r \in Requests :
              (/\ Delivered(r)
               /\ network[r].op = "updateWorkflowTaskStatus"
               /\ ~network[r].out.ok)
                  => view'.tasks = view.tasks]_vars

\* ---- C29
\* The loadData calls made so far, by the request that carries their list query.
Loads ==
    {r \in Requests :
        network[r].op \in {"getWorkflowTasksByUser", "getScheduledPostsByUser"}}

\* The list the mounted view displays.
Displayed(v) == IF v.tab = "workflow" THEN v.tasks ELSE v.scheduledPosts

\* C29: in the WorkflowManagement and SchedulingDashboard views, once all
\* loadData calls in flight have completed, the displayed list is the
\* server's answer to the load made for the currently selected status and
\* priority filter; the response to a load started under an earlier filter
\* never overwrites the response to a load started under a later one.
C29_LatestLoadDisplayed ==
    /\ []((Loads # {} /\ \A r \in Loads : network[r].phase = 3)
             => LET latest == CHOOSE r \in Loads : \A q \in Loads : q <= r IN
                /\ network[latest].input.status = FilterArgument(view.filterStatus)
                /\ network[latest].out.ok
                       => Displayed(view) = network[latest].out.rows)
    /\ [][\A r \in Loads :
              (Delivered(r) /\ \E q \in Loads : q > r /\ network[q].phase = 3)
                  => Displayed(view') = Displayed(view)]_vars
====
